---------------------------- MODULE Spec2Model ----------------------------
(***************************************************************************)
(* State-machine model of the AquaRegulator telemetry pipeline and command *)
(* plane: the per-channel telemetry cache, the line-buffered command       *)
(* router with the Modbus sensor gateway behind it, and the framed TCP     *)
(* publisher with its join-time snapshot.                                  *)
(*                                                                         *)
(* One module, several specifications: each specification drives one       *)
(* subsystem and leaves the variables of the others at their initial       *)
(* value.                                                                  *)
(***************************************************************************)
EXTENDS Integers, Sequences, FiniteSets, TLC

(***************************************************************************)
(* Bounds of the model.                                                    *)
(***************************************************************************)
\* largest cache capacity (pipeline.cacheSize) explored
MaxCapacity == 2
\* number of TelemetryCache::store calls explored in the cache specification
MaxStores == 3
\* number of command lines the clients write in the router specification
MaxLines == 2
\* number of command lines the client writes in the line-splitter specification
SplitLines == 2
\* sensor.retrySeconds, the width of the reconnect window, in seconds
RetrySeconds == 5
\* number of clock ticks explored
ClockSpan == 2
\* clock units the pipeline worker runs for in the telemetry specification
PipelineSpan == 1
\* number of publish calls explored in the fan-out and framing specifications
MaxPublishes == 2
\* pipeline.realtimeIntervalSeconds and pipeline.historicalIntervalSeconds
RealtimeSeconds == 1
HistoricalSeconds == 2
\* number of gateway calls explored in the reconnect-window specification
MaxCalls == 5
\* calls of the gateway on an endpoint that comes and goes
HandleCalls == 3
\* calls of the gateway made by its three threads in the mutex specification
MutexCalls == 3
\* calls of HealthMonitor::update made by concurrent threads
MaxUpdates == 3
\* periodic flushes of the status file explored (the last flush is extra)
MaxFlushes == 2
\* correlation ids handed out in the specification of the id counter
MaxIssued == 5
\* number of iterations of main's poll loop explored
MaxPolls == 2
\* number of changes made to the configuration file from outside
MaxEdits == 1

(***************************************************************************)
(* Domain: channels and readings (domain/telemetry_models.hpp).            *)
(***************************************************************************)
TelemetryChannel == {"Realtime", "HistoricalEnvironment", "HistoricalSoil"}

\* Readings handed to the cache by a caller of store; opaque samples.
SampleReadings == {"ra", "rb"}

Min(a, b) == IF a <= b THEN a ELSE b
Max(a, b) == IF a >= b THEN a ELSE b

\* The last k elements of s, oldest first.
LastN(s, k) == SubSeq(s, Len(s) - k + 1, Len(s))

VARIABLES
    \* ---- TelemetryCache ----
    capacity_,      \* TelemetryCache::capacity_
    cache_,         \* TelemetryCache::cache_ : channel -> deque, entries made on first store
    stored,         \* history: every reading ever passed to store, per channel
    snapOut,        \* the vector returned by the last snapshot call, with the
                    \* number of stores its channel had seen when it was taken
    \* ---- environment ----
    now,            \* the clock (steady_clock::now / system_clock::now)
    endpointUp,     \* whether the Modbus endpoint answers (connect, read, write succeed)
    ubCast,         \* what the build does on static_cast<uint16_t>(double) out of range
    wire,           \* per connection: bytes written by the client, not yet received
    linesWritten,   \* number of command lines the clients have written
    deadPeers,      \* connections whose Send fails (peer gone, close not yet delivered)
    accepts,        \* number of connections accepted so far
    dbUp,           \* whether the historical store answers queries
    soilUp,         \* whether the soil_and_air_quality relation can be queried
    published,      \* number of publish calls made by the callers the model adds
    \* ---- HealthMonitor ----
    states_,        \* HealthMonitor::states_ : component -> HealthState
    \* ---- SensorGateway ----
    modbus_,        \* SensorGateway::modbus_ is non-null
    lastAttempt_,   \* SensorGateway::lastAttempt_
    holding,        \* the device's holding registers: address -> value written
    made,           \* history: number of readings produced so far
    \* ---- DeviceCommandRouter / main ----
    buffers_,       \* DeviceCommandRouter::buffers_ : connection id -> pending bytes
    reloadRequested,\* main's reloadRequested flag
    fed,            \* history: per connection, the chunks passed to feed, in order
    dispatched,     \* history: per connection, the lines parsed, each with its reply
                    \* and the calls parseLine made for it
    \* ---- TelemetryPublisher / ServerListener ----
    serverConns,    \* the transport's active connections (GetConnectionCount)
    connIDs_,       \* ServerListener::_connIDs
    snapshotProvider_, \* TelemetryPublisher::snapshotProvider_ is set
    acceptPending,  \* per connection inside OnAccept: the provider's frames not yet published
    sent,           \* per connection: the buffers handed to Send, in order
    pubCalls,       \* history: the publish calls made by the last step
    acceptLog,      \* history: per OnAccept call, the id, whether the provider was
                    \* called, the cache it saw, its frames and the publish calls
    \* ---- TelemetryService ----
    correlationId_, \* TelemetryService::correlationId_
    pc,             \* where the pipeline worker is in runLoop
    pipePending,    \* frames the worker has decided to publish and not yet published
    iterStart,      \* runLoop's start
    lastHistorical, \* runLoop's lastHistorical
    \* ---- main / ConfigurationManager ----
    configFile,     \* the configuration file on disk: whether it exists, its
                    \* modification time
    lastWriteTime_, \* ConfigurationManager::lastWriteTime_
    config_,        \* ConfigurationManager::config_: the file version it was
                    \* parsed from, DefaultVersion when built from the defaults
    mainPc,         \* where main is in its poll loop
    pollFlag,       \* what reloadRequested.exchange(false) returned in this iteration
    pollCurrent,    \* reloadIfChanged's current
    pollLog,        \* history: one record per poll iteration
    edits,          \* number of changes made to the file from outside
    \* ---- callers of the SensorGateway ----
    gwCalls,        \* history: the calls of readRealtime and writeRegister made by
                    \* the callers the model adds, each with what it did
    mutex_,         \* SensorGateway::mutex_: the thread that holds it, or "free"
    gwPc,           \* per thread: where it is in readRealtime / writeRegister
    accesses,       \* history: who touched modbus_ and lastAttempt_, and who held
                    \* mutex_ at that moment
    \* ---- HealthMonitor: its mutex, its writer thread and the status file ----
    healthMutex,    \* HealthMonitor::mutex_: the thread that holds it, or "free"
    updPc,          \* per thread: where it is in HealthMonitor::update
    applied,        \* history: the assignments to states_ made by update, in order
    running_,       \* HealthMonitor::running_
    writerPc,       \* where the writer thread is in writerLoop / flushToDisk
    writerFinal,    \* the writer has left its loop and is in the last flushToDisk
    writerSnapshot, \* flushToDisk's snapshot
    healthFile,     \* the status file: whether it exists, and its text
    flushLog,       \* history: per completed flushToDisk, the registry when the
                    \* copy was taken and the text written
    stopIndex,      \* history: Len(applied) when stop() was called
    \* ---- callers of nextCorrelationId ----
    issued,         \* history: the correlation ids handed out, in order, with the
                    \* thread that asked
    building,       \* per publisher I/O thread: the channels its snapshot
                    \* provider call has still to build a frame for
    \* ---- main's start-up and shutdown, and the workers it owns ----
    shouldRun,      \* main's shouldRun flag, cleared by the signal handler
    exitCode,       \* "none" while main runs, then what main returned
    listening,      \* the servers that are started: "publisher", "video"
    svcRunning_,    \* TelemetryService::running_
    videoRunning_,  \* VideoManager::running_
    relayPc,        \* where the relay thread is in relayThreadFunc
    lifeLog,        \* history: the starts and stops of the components, in order
    \* ---- VideoManager: its clients, its queue and what it relayed ----
    videoConns,     \* the connections the video server holds
    clients_,       \* VideoManager::clients_: connection id -> isPublisher
    packetQueue_,   \* VideoManager::packetQueue_
    relayPkt,       \* the packet the relay thread has taken from the queue
    videoLog,       \* history: the OnReceive calls, with the role the sender
                    \* had and whether the payload was enqueued
    videoSent,      \* history: the Send calls of the relay thread, in order
    \* ---- a caller of the repository's loads ----
    loadTable,      \* the time column of the relation queried, oldest first
    loadLimit,      \* the limit of the query
    loadOut,        \* history: the rows the store returned and the readings
                    \* the load returned
    \* ---- the configuration each component was constructed with ----
    pipelineConfig_,    \* TelemetryService::pipelineConfig_
    sensorConfig_,      \* SensorGateway::config_
    publisherConfig_,   \* TelemetryPublisher::config_
    \* ---- the publisher's I/O threads inside OnReceive ----
    ioPc,           \* per I/O thread: where it is in feed or in handleThreshold,
                    \* for which connection, with which bytes and pending writes
    mapRaces        \* history: the accesses to buffers_ made while another
                    \* thread was changing it

cacheVars == <<capacity_, cache_, stored, snapOut>>
envVars == <<now, endpointUp, ubCast, wire, linesWritten, deadPeers, accepts, dbUp, soilUp,
             published>>
gatewayVars == <<states_, modbus_, lastAttempt_, holding, made>>
routerVars == <<buffers_, reloadRequested, fed, dispatched>>
publisherVars == <<serverConns, connIDs_, snapshotProvider_, acceptPending, sent, pubCalls,
                   acceptLog>>
serviceVars == <<correlationId_, pc, pipePending, iterStart, lastHistorical>>

supervisorVars == <<configFile, lastWriteTime_, config_, mainPc, pollFlag,
                    pollCurrent, pollLog, edits>>

\* what the cache, command-plane and telemetry-plane steps leave alone
callerVars == <<gwCalls, mutex_, gwPc, accesses>>
monitorVars == <<healthMutex, updPc, applied, running_, writerPc, writerFinal,
                 writerSnapshot, healthFile, flushLog, stopIndex>>
idVars == <<issued, building>>

lifeVars == <<shouldRun, exitCode, listening, svcRunning_, videoRunning_, relayPc, lifeLog>>
videoVars == <<videoConns, clients_, packetQueue_, relayPkt, videoLog, videoSent>>
loadVars == <<loadTable, loadLimit, loadOut>>
copyVars == <<pipelineConfig_, sensorConfig_, publisherConfig_>>
feedVars == <<ioPc, mapRaces>>

laterVars == <<supervisorVars, callerVars, monitorVars, idVars, lifeVars, videoVars, loadVars, copyVars, feedVars>>

vars == <<cacheVars, envVars, gatewayVars, routerVars, publisherVars, serviceVars,
          laterVars>>

(***************************************************************************)
(* TelemetryCache                                                          *)
(***************************************************************************)
NoSnapshot == [channel |-> "none", readings |-> <<>>, n |-> 0]

\* mutant of store: the overflow drops the newest element instead of the oldest
storeDropNewest(cache, capacity, channel, reading) ==
    LET buffer == IF channel \in DOMAIN cache THEN cache[channel] ELSE <<>>
        pushed == Append(buffer, reading)
        kept   == IF Len(pushed) > capacity
                    THEN SubSeq(pushed, 1, Len(pushed) - 1) ELSE pushed
    IN  [c \in DOMAIN cache \cup {channel} |->
            IF c = channel THEN kept ELSE cache[c]]

\* TelemetryCache::store: push_back, then pop_front when size exceeds capacity_
store(cache, capacity, channel, reading) ==
    LET buffer == IF channel \in DOMAIN cache THEN cache[channel] ELSE <<>>
        pushed == Append(buffer, reading)
        kept   == IF Len(pushed) > capacity THEN Tail(pushed) ELSE pushed
    IN  [c \in DOMAIN cache \cup {channel} |->
            IF c = channel THEN kept ELSE cache[c]]

\* TelemetryCache::snapshot: a copy of the channel's deque, empty when absent
snapshot(cache, channel) ==
    IF channel \in DOMAIN cache THEN cache[channel] ELSE <<>>

(***************************************************************************)
(* HealthMonitor                                                           *)
(***************************************************************************)
\* mutant of update: an entry that exists is kept (emplace, not assignment)
updateKeepsFirst(states, component, healthy, detail, at) ==
    [c \in DOMAIN states \cup {component} |->
        IF c \in DOMAIN states
          THEN states[c]
          ELSE [healthy |-> healthy, detail |-> detail, updatedAt |-> at]]

\* HealthMonitor::update: states_[component] = {healthy, detail, now}
update(states, component, healthy, detail, at) ==
    [c \in DOMAIN states \cup {component} |->
        IF c = component
          THEN [healthy |-> healthy, detail |-> detail, updatedAt |-> at]
          ELSE states[c]]

(***************************************************************************)
(* The part of the program a command line can touch, threaded through the  *)
(* router and the gateway as one record w:                                 *)
(*   modbus, lastAttempt, holding, states, reload  as the variables above  *)
(*   trace   the calls made so far while handling the current line         *)
(* and what the handler reads of its surroundings, a record env:           *)
(*   now, up (endpoint answers), ub (out-of-range cast), diag (the JSON    *)
(*   the diagnostics provider returns)                                     *)
(***************************************************************************)
Logged(w, event) == [w EXCEPT !.trace = Append(@, event)]

\* monitor_.update(...) as called from the gateway and the router
Health(w, env, component, healthy, detail) ==
    Logged([w EXCEPT !.states = update(@, component, healthy, detail, env.now)],
           [op |-> "health", address |-> 0, value |-> 0, ok |-> healthy,
            what |-> component])

(***************************************************************************)
(* SensorGateway                                                           *)
(***************************************************************************)
\* SensorGateway::handleFailure: log and mark sensor_gateway unhealthy
handleFailure(w, env, reason) == Health(w, env, "sensor_gateway", FALSE, reason)

\* mutant of ensureConnection: the retry window is not looked at
ensureConnectionEveryCall(w, env) ==
    IF w.modbus THEN [ok |-> TRUE, w |-> w]
    ELSE LET w1 == Logged([w EXCEPT !.lastAttempt = env.now],
                          [op |-> "connect", address |-> 0, value |-> 0,
                           ok |-> env.up, what |-> "modbus"])
         IN  IF env.up
               THEN [ok |-> TRUE,
                     w  |-> Health([w1 EXCEPT !.modbus = TRUE], env,
                                   "sensor_gateway", TRUE, "Modbus connected")]
               ELSE [ok |-> FALSE,
                     w  |-> handleFailure([w1 EXCEPT !.modbus = FALSE], env,
                                          "Connection error")]

\* SensorGateway::ensureConnection: open handle -> true; inside the retry
\* window -> false without touching the socket; else one connect attempt
ensureConnection(w, env) ==
    IF w.modbus THEN [ok |-> TRUE, w |-> w]
    ELSE IF env.now - w.lastAttempt < env.retrySeconds THEN [ok |-> FALSE, w |-> w]
    ELSE LET w1 == Logged([w EXCEPT !.lastAttempt = env.now],
                          [op |-> "connect", address |-> 0, value |-> 0,
                           ok |-> env.up, what |-> "modbus"])
         IN  IF env.up
               THEN [ok |-> TRUE,
                     w  |-> Health([w1 EXCEPT !.modbus = TRUE], env,
                                   "sensor_gateway", TRUE, "Modbus connected")]
               ELSE [ok |-> FALSE,
                     w  |-> handleFailure([w1 EXCEPT !.modbus = FALSE], env,
                                          "Connection error")]

\* the Modbus write itself, on an open handle: modbus_->writeRegister, then
\* the healthy update, or handleFailure when the library call fails
ModbusWrite(w, env, address, value) ==
    IF env.up
      THEN Health(Logged([w EXCEPT !.holding =
                            [a \in DOMAIN @ \cup {address} |->
                                IF a = address THEN value ELSE @[a]]],
                         [op |-> "write", address |-> address, value |-> value,
                          ok |-> TRUE, what |-> "modbus"]),
                  env, "sensor_gateway", TRUE, "Register write successful")
      ELSE handleFailure(Logged(w, [op |-> "write", address |-> address,
                                    value |-> value, ok |-> FALSE,
                                    what |-> "modbus"]),
                         env, "writeRegister failed")

\* a call of a public method of the gateway, with its arguments, recorded in
\* the trace before its body runs
Called(w, method, address, value) ==
    Logged(w, [op |-> method, address |-> address, value |-> value,
               ok |-> TRUE, what |-> "gateway"])

\* mutant of writeRegister: the result of ensureConnection is ignored
writeRegisterUnchecked(w, env, address, value) ==
    ModbusWrite(ensureConnection(Called(w, "writeRegister", address, value), env).w,
                env, address, value)

\* SensorGateway::writeRegister: under the gateway mutex; no connection ->
\* return; write; success -> healthy; exception -> handleFailure
writeRegister(w, env, address, value) ==
    LET e == ensureConnection(Called(w, "writeRegister", address, value), env)
    IN  IF ~e.ok THEN e.w ELSE ModbusWrite(e.w, env, address, value)

(***************************************************************************)
(* Inbound bytes and JSON.  A byte stream is a sequence of tokens: the     *)
(* newline, the braces and brackets, one token per object member, and      *)
(* bytes that belong to no JSON text.  Numbers are carried in thousandths. *)
(***************************************************************************)
Tok(c) == [k |-> c, ty |-> "p", s |-> "", n |-> 0]
StrF(key, str) == [k |-> key, ty |-> "str", s |-> str, n |-> 0]
NumF(key, milli) == [k |-> key, ty |-> "num", s |-> "", n |-> milli]
NL == Tok("\n")

\* integer division truncating toward zero, as a C++ conversion does
TruncDiv(a, b) == IF a >= 0 THEN a \div b ELSE -((-a) \div b)

\* static_cast<uint16_t>(x * 100) for a double x given in thousandths: the
\* product is truncated toward zero; a result outside 0..65535 is undefined
\* behaviour, which builds resolve by wrapping or by saturating
ScaledToU16(milli, ub) ==
    LET v == TruncDiv(milli, 10)
    IN  IF v >= 0 /\ v <= 65535 THEN v
        ELSE IF ub = "wrap" THEN v % 65536
        ELSE IF v < 0 THEN 0 ELSE 65535

\* static_cast<uint16_t>(int): modulo 2^16
IntToU16(i) == i % 65536

\* json -> int for a number given in thousandths
ToInt(milli) == TruncDiv(milli, 1000)

\* nlohmann::json::parse, on the texts of this model: an object is a "{",
\* members, "}"; "[" "]" is an array; anything else is a parse error
JsonParse(line) ==
    IF /\ Len(line) >= 2
       /\ line[1] = Tok("{")
       /\ line[Len(line)] = Tok("}")
       /\ \A i \in 2..(Len(line) - 1) : line[i].ty \in {"str", "num"}
      THEN [ok |-> TRUE, object |-> TRUE, members |-> SubSeq(line, 2, Len(line) - 1)]
    ELSE IF line = <<Tok("["), Tok("]")>>
      THEN [ok |-> TRUE, object |-> FALSE, members |-> <<>>]
    ELSE [ok |-> FALSE, object |-> FALSE, members |-> <<>>]

HasKey(msg, key) == \E i \in 1..Len(msg.members) : msg.members[i].k = key
Member(msg, key) ==
    LET i == CHOOSE j \in 1..Len(msg.members) :
                /\ msg.members[j].k = key
                /\ \A l \in (j + 1)..Len(msg.members) : msg.members[l].k # key
    IN  msg.members[i]

\* msg.value(key, default) for a string default: type_error when msg is no
\* object or the member is no string
ValueStr(msg, key, default) ==
    IF ~msg.object THEN [ok |-> FALSE, v |-> default]
    ELSE IF ~HasKey(msg, key) THEN [ok |-> TRUE, v |-> default]
    ELSE IF Member(msg, key).ty = "str" THEN [ok |-> TRUE, v |-> Member(msg, key).s]
    ELSE [ok |-> FALSE, v |-> default]

\* msg.value(key, default) for a numeric default (in thousandths)
ValueNum(msg, key, default) ==
    IF ~msg.object THEN [ok |-> FALSE, v |-> default]
    ELSE IF ~HasKey(msg, key) THEN [ok |-> TRUE, v |-> default]
    ELSE IF Member(msg, key).ty = "num" THEN [ok |-> TRUE, v |-> Member(msg, key).n]
    ELSE [ok |-> FALSE, v |-> default]

(***************************************************************************)
(* DeviceCommandRouter                                                     *)
(***************************************************************************)
AckThreshold == "{\"status\":\"ok\",\"message\":\"threshold updated\"}"
AckLight == "{\"status\":\"ok\",\"message\":\"light control updated\"}"
AckMode == "{\"status\":\"ok\",\"message\":\"mode updated\"}"
AckReload == "{\"status\":\"ok\",\"message\":\"configuration reload requested\"}"
AckWrite == "{\"status\":\"ok\",\"message\":\"register write queued\"}"
ErrUnknown == "{\"status\":\"error\",\"message\":\"unknown command\"}"
ErrInvalid == "{\"status\":\"error\",\"message\":\"invalid payload\"}"

\* the catch block of parseLine: mark command_router unhealthy, reply invalid
Caught(w, env) ==
    [reply |-> ErrInvalid,
     w |-> Health(w, env, "command_router", FALSE, "exception")]

\* DeviceCommandRouter::handleThreshold: read the four values (a member of
\* the wrong type raises before any write), write 10..13, mark healthy
handleThreshold(w, env, msg) ==
    LET soil  == ValueNum(msg, "soil", 0)
        rain  == ValueNum(msg, "rain", 0)
        temp  == ValueNum(msg, "temp", 0)
        light == ValueNum(msg, "light", 0)
    IN  IF ~(soil.ok /\ rain.ok /\ temp.ok /\ light.ok) THEN [ok |-> FALSE, w |-> w]
        ELSE LET w1 == writeRegister(w, env, 10, ScaledToU16(soil.v, env.ub))
                 w2 == writeRegister(w1, env, 11, ScaledToU16(rain.v, env.ub))
                 w3 == writeRegister(w2, env, 12, ScaledToU16(temp.v, env.ub))
                 w4 == writeRegister(w3, env, 13, ScaledToU16(light.v, env.ub))
             IN  [ok |-> TRUE,
                  w  |-> Health(w4, env, "command_router", TRUE, "threshold updated")]

\* DeviceCommandRouter::handleLightControl: write 14
handleLightControl(w, env, msg) ==
    LET light == ValueNum(msg, "light", 0)
    IN  IF ~light.ok THEN [ok |-> FALSE, w |-> w]
        ELSE [ok |-> TRUE,
              w  |-> Health(writeRegister(w, env, 14, ScaledToU16(light.v, env.ub)),
                            env, "command_router", TRUE, "light control updated")]

\* DeviceCommandRouter::handleModeSelect: write 15
handleModeSelect(w, env, msg) ==
    LET mode == ValueNum(msg, "mode", 0)
    IN  IF ~mode.ok THEN [ok |-> FALSE, w |-> w]
        ELSE [ok |-> TRUE,
              w  |-> Health(writeRegister(w, env, 15, IntToU16(ToInt(mode.v))),
                            env, "command_router", TRUE, "mode updated")]

\* mutant of handleDirectWrite: address 0 is treated like a negative address
handleDirectWritePositiveOnly(w, env, msg) ==
    LET address == ValueNum(msg, "address", -1000)
        value   == ValueNum(msg, "value", 0)
    IN  IF ~(address.ok /\ value.ok) THEN [ok |-> FALSE, w |-> w]
        ELSE IF ToInt(address.v) > 0
          THEN [ok |-> TRUE,
                w  |-> writeRegister(w, env, IntToU16(ToInt(address.v)),
                                     IntToU16(ToInt(value.v)))]
          ELSE [ok |-> TRUE, w |-> w]

\* DeviceCommandRouter::handleDirectWrite: address defaults to -1; a
\* negative address writes nothing
handleDirectWrite(w, env, msg) ==
    LET address == ValueNum(msg, "address", -1000)
        value   == ValueNum(msg, "value", 0)
    IN  IF ~(address.ok /\ value.ok) THEN [ok |-> FALSE, w |-> w]
        ELSE IF ToInt(address.v) >= 0
          THEN [ok |-> TRUE,
                w  |-> writeRegister(w, env, IntToU16(ToInt(address.v)),
                                     IntToU16(ToInt(value.v)))]
          ELSE [ok |-> TRUE, w |-> w]

\* the reply of a handler that may have raised
Replied(h, env, ack) ==
    IF h.ok THEN [reply |-> ack, w |-> h.w] ELSE Caught(h.w, env)

\* mutant of parseLine: an unknown type is treated like a parse failure
parseLineUnknownIsInvalid(w, env, line) ==
    LET msg  == JsonParse(line)
        type == ValueStr(msg, "type", "")
    IN  IF ~msg.ok \/ ~type.ok THEN Caught(w, env)
        ELSE IF type.v = "threshold" THEN Replied(handleThreshold(w, env, msg), env, AckThreshold)
        ELSE IF type.v = "light_control" THEN Replied(handleLightControl(w, env, msg), env, AckLight)
        ELSE IF type.v = "mode_select" THEN Replied(handleModeSelect(w, env, msg), env, AckMode)
        ELSE IF type.v = "diagnostics" THEN [reply |-> env.diag, w |-> w]
        ELSE IF type.v = "config_reload"
          THEN [reply |-> AckReload,
                w |-> Logged([w EXCEPT !.reload = TRUE],
                             [op |-> "reload", address |-> 0, value |-> 0,
                              ok |-> TRUE, what |-> "main"])]
        ELSE IF type.v = "write_register" THEN Replied(handleDirectWrite(w, env, msg), env, AckWrite)
        ELSE Caught(w, env)

\* DeviceCommandRouter::parseLine: parse, dispatch on "type", reply; every
\* exception ends in the catch block
parseLine(w, env, line) ==
    LET msg  == JsonParse(line)
        type == ValueStr(msg, "type", "")
    IN  IF ~msg.ok \/ ~type.ok THEN Caught(w, env)
        ELSE IF type.v = "threshold" THEN Replied(handleThreshold(w, env, msg), env, AckThreshold)
        ELSE IF type.v = "light_control" THEN Replied(handleLightControl(w, env, msg), env, AckLight)
        ELSE IF type.v = "mode_select" THEN Replied(handleModeSelect(w, env, msg), env, AckMode)
        ELSE IF type.v = "diagnostics" THEN [reply |-> env.diag, w |-> w]
        ELSE IF type.v = "config_reload"
          THEN [reply |-> AckReload,
                w |-> Logged([w EXCEPT !.reload = TRUE],
                             [op |-> "reload", address |-> 0, value |-> 0,
                              ok |-> TRUE, what |-> "main"])]
        ELSE IF type.v = "write_register" THEN Replied(handleDirectWrite(w, env, msg), env, AckWrite)
        ELSE [reply |-> ErrUnknown, w |-> w]

\* buffer.find('\n'): the least index holding a newline, 0 when there is none
FindNewline(buffer) ==
    IF \E i \in 1..Len(buffer) : buffer[i] = NL
      THEN CHOOSE i \in 1..Len(buffer) :
              buffer[i] = NL /\ \A j \in 1..(i - 1) : buffer[j] # NL
      ELSE 0

\* the loop of feed: while the buffer holds a newline, cut the line before
\* it, parse it, hand the reply to respond.  out collects, per line, the
\* line, the reply, the calls made for it, the health entries before and
\* after, and what the gateway and its surroundings were when it was parsed.
RECURSIVE feedLoop(_, _, _, _)
feedLoop(buffer, w, env, out) ==
    LET pos == FindNewline(buffer)
    IN  IF pos = 0 THEN [buffer |-> buffer, w |-> w, out |-> out]
        ELSE LET line == SubSeq(buffer, 1, pos - 1)
                 rest == SubSeq(buffer, pos + 1, Len(buffer))
                 r    == parseLine([w EXCEPT !.trace = <<>>], env, line)
             IN  feedLoop(rest, r.w, env,
                          Append(out, [line |-> line, reply |-> r.reply,
                                       trace |-> r.w.trace, before |-> w.states,
                                       after |-> r.w.states, modbus |-> w.modbus,
                                       lastAttempt |-> w.lastAttempt,
                                       at |-> env.now, up |-> env.up]))

\* mutant of feed: the unfinished tail of the buffer is dropped on return
feedDropsTail(buffer, chunk, w, env) ==
    [feedLoop(buffer \o chunk, w, env, <<>>) EXCEPT !.buffer = <<>>]

\* DeviceCommandRouter::feed: append the chunk to the connection's buffer,
\* then dispatch every complete line
feed(buffer, chunk, w, env) == feedLoop(buffer \o chunk, w, env, <<>>)

(***************************************************************************)
(* SensorGateway::readRealtime and the historical store                    *)
(***************************************************************************)
\* SensorGateway::readRealtime: no connection -> empty; read the registers;
\* failure -> handleFailure and empty; else a Reading labelled Realtime with
\* the current timestamp.  seq numbers the readings in the order they are
\* made (a history field: nothing in the program reads it).
readRealtime(w, env) ==
    LET e == ensureConnection(w, env)
    IN  IF ~e.ok THEN [ok |-> FALSE, w |-> e.w, reading |-> <<>>]
        ELSE IF ~env.up
          THEN [ok |-> FALSE, reading |-> <<>>,
                w |-> handleFailure(Logged(e.w, [op |-> "read", address |-> 0,
                                                 value |-> 0, ok |-> FALSE,
                                                 what |-> "modbus"]),
                                    env, "readRegisters failed")]
        ELSE [ok |-> TRUE,
              reading |-> [label |-> "Realtime", timestamp |-> env.now,
                           seq |-> e.w.made + 1],
              w |-> Health(Logged([e.w EXCEPT !.made = @ + 1],
                                  [op |-> "read", address |-> 0, value |-> 0,
                                   ok |-> TRUE, what |-> "modbus"]),
                           env, "sensor_gateway", TRUE, "Realtime sample collected")]

Reverse(s) == [i \in 1..Len(s) |-> s[Len(s) + 1 - i]]

\* the rows of a relation as the store returns them for
\* ORDER BY time DESC LIMIT limit: newest first, at most limit rows
SelectDesc(table, limit) ==
    SubSeq(Reverse(table), 1, Min(limit, Len(table)))

\* TelemetryRepository::loadEnvironmental / loadSoilAndAir: query, decode
\* each row into a Reading with the relation's label, reverse to oldest
\* first; a failed query gives the empty list
\* a NULL in the time column
NullTime == "NULL"

\* buildEnvReading / buildSoilReading: timestamp = row[0] ? row[0] : "N/A"
TimestampOf(time) == IF time = NullTime THEN "N/A" ELSE time

RECURSIVE decodeRows(_, _, _)
decodeRows(rows, label, firstSeq) ==
    IF rows = <<>> THEN <<>>
    ELSE <<[label |-> label, timestamp |-> TimestampOf(Head(rows)), seq |-> firstSeq]>>
            \o decodeRows(Tail(rows), label, firstSeq + 1)

loadRelationNoReverse(w, env, table, label, limit) ==
    IF ~env.dbUp THEN [w |-> w, readings |-> <<>>]
    ELSE LET rows == SelectDesc(table, limit)
         IN  [w |-> [w EXCEPT !.made = @ + Len(rows)],
              readings |-> decodeRows(rows, label, w.made + 1)]

loadRelation(w, env, table, label, limit) ==
    IF ~env.dbUp THEN [w |-> w, readings |-> <<>>]
    ELSE LET rows == Reverse(SelectDesc(table, limit))
         IN  [w |-> [w EXCEPT !.made = @ + Len(rows)],
              readings |-> decodeRows(rows, label, w.made + 1)]

loadEnvironmental(w, env, limit) ==
    loadRelation(w, env, env.envRows, "Historical_ENV", limit)

loadSoilAndAir(w, env, limit) ==
    loadRelation(w, [env EXCEPT !.dbUp = @ /\ env.soilUp], env.soilRows,
                 "Historical_Soil", limit)

(***************************************************************************)
(* Frames and their wire form                                              *)
(***************************************************************************)
\* domain::channelName
channelName(channel) ==
    CASE channel = "Realtime" -> "realtime"
      [] channel = "HistoricalEnvironment" -> "historical_env"
      [] channel = "HistoricalSoil" -> "historical_soil"
      [] OTHER -> "unknown"

\* length of the JSON text of one reading: the fixed part (keys, quotes,
\* separators), the label, a 19-character timestamp and six numbers printed
\* as 0.0
ReadingJsonSize(reading) == 90 + Len(reading.label) + 19 + 6 * 3

RECURSIVE ReadingsJsonSize(_)
ReadingsJsonSize(readings) ==
    IF readings = <<>> THEN 0
    ELSE ReadingJsonSize(Head(readings)) + ReadingsJsonSize(Tail(readings))

\* domain::toJson(frame).dump(): the JSON object of the frame and the
\* number of bytes of its text
dump(frame) ==
    [json |-> [channel |-> channelName(frame.channel),
               snapshot |-> frame.snapshot,
               correlationId |-> frame.correlationId,
               readings |-> frame.readings],
     size |-> 59 + Len(channelName(frame.channel)) + Len(frame.correlationId)
                + (IF frame.snapshot THEN 4 ELSE 5)
                + ReadingsJsonSize(frame.readings)
                + Max(0, Len(frame.readings) - 1)]

\* Sizes are naturals below 2^31.  Wider values are kept as two 16-bit
\* halves [hi, lo], standing for hi * 65536 + lo.
Halves(n) == [hi |-> n \div 65536, lo |-> n % 65536]

\* sizeof(uint32_t) + payload.size() in size_t arithmetic
PlusPrefix(n) ==
    LET lo == (n % 65536) + 4
    IN  [hi |-> (n \div 65536) + (lo \div 65536), lo |-> lo % 65536]

\* static_cast<uint32_t>(size_t): the low 32 bits
ToUint32(h) == [hi |-> h.hi % 65536, lo |-> h.lo]

\* static_cast<int>(size_t): the low 32 bits read as two's complement
ToInt32(h) ==
    IF h.hi % 65536 >= 32768
      THEN ((h.hi % 65536) - 65536) * 65536 + h.lo
      ELSE (h.hi % 65536) * 65536 + h.lo

\* the four bytes memcpy'd from htonl(len): most significant first
BigEndian32(h) ==
    <<h.hi \div 256, h.hi % 256, h.lo \div 256, h.lo % 256>>

\* the buffer publish builds from a serialised body, and the byte count it
\* passes to Send
wireBuffer(payload) ==
    [prefix |-> BigEndian32(ToUint32(Halves(payload.size))),
     body   |-> payload,
     count  |-> ToInt32(PlusPrefix(payload.size))]

(***************************************************************************)
(* ServerListener / TelemetryPublisher                                     *)
(***************************************************************************)
\* one Send call on a connection, appended to what that connection was sent
SendTo(log, id, item) ==
    [c \in DOMAIN log \cup {id} |->
        IF c = id THEN Append(IF c \in DOMAIN log THEN log[c] ELSE <<>>, item)
        ELSE log[c]]

RECURSIVE SendAll(_, _, _, _)
SendAll(log, ids, item, dead) ==
    IF ids = <<>> THEN log
    ELSE SendAll(SendTo(log, Head(ids), [item EXCEPT !.ok = Head(ids) \notin dead]),
                 Tail(ids), item, dead)

\* TelemetryPublisher::hasSubscribers: server_->GetConnectionCount() > 0
hasSubscribers(w) == Cardinality(w.conns) > 0

NoPayload == [json |-> <<>>, size |-> 0]

\* mutant of publish: the fan-out stops at the first Send that fails
RECURSIVE SendUntilFailure(_, _, _, _)
SendUntilFailure(log, ids, item, dead) ==
    IF ids = <<>> THEN log
    ELSE IF Head(ids) \in dead
      THEN SendTo(log, Head(ids), [item EXCEPT !.ok = FALSE])
      ELSE SendUntilFailure(SendTo(log, Head(ids), item), Tail(ids), item, dead)

\* the fan-out of publish: forEachConnection copies _connIDs and calls Send
\* for each id; the result of Send is not looked at
fanOut(log, ids, item, dead) == SendAll(log, ids, item, dead)

\* the body of publish past its guard, given the serialised frame: prefix
\* the length, Send the one buffer to every id of _connIDs, mark
\* telemetry_publisher healthy.  calls records the call: the frame, the
\* transport's connections and _connIDs when it was made, what every
\* connection had been sent and the health entries, before and after, and
\* the buffer built (kind "none" when none was).
deliverPayload(w, env, frame, payload, via) ==
    LET buffer == wireBuffer(payload)
        item   == [kind |-> "frame", ok |-> TRUE, prefix |-> buffer.prefix,
                   body |-> buffer.body, count |-> buffer.count,
                   text |-> "", via |-> via]
        w1     == [w EXCEPT !.sent = fanOut(@, w.ids, item, env.dead)]
        w2     == Health(w1, env, "telemetry_publisher", TRUE,
                         "Frame delivered to clients")
    IN  [w2 EXCEPT !.calls = Append(@, [frame |-> frame, conns |-> w.conns,
                                        live |-> w.ids, dead |-> env.dead,
                                        before |-> w.sent, after |-> w1.sent,
                                        statesBefore |-> w.states,
                                        statesAfter |-> w2.states,
                                        item |-> item])]

\* the body of publish past its guard: serialise once, then as above
deliver(w, env, frame, via) == deliverPayload(w, env, frame, dump(frame), via)

\* mutant of publish: the early return on no subscribers is missing
publishUnguarded(w, env, frame, via) == deliver(w, env, frame, via)

\* TelemetryPublisher::publish: return when hasSubscribers() is false, else
\* deliver
publish(w, env, frame, via) ==
    IF ~hasSubscribers(w)
      THEN [w EXCEPT !.calls = Append(@, [frame |-> frame, conns |-> w.conns,
                                          live |-> w.ids, dead |-> env.dead,
                                          before |-> w.sent, after |-> w.sent,
                                          statesBefore |-> w.states,
                                          statesAfter |-> w.states,
                                          item |-> [kind |-> "none", ok |-> FALSE,
                                                    prefix |-> <<>>, body |-> NoPayload,
                                                    count |-> 0, text |-> "",
                                                    via |-> via]])]
      ELSE deliver(w, env, frame, via)

\* publish for a frame whose serialised body has the given number of bytes
publishSized(w, env, frame, size, via) ==
    IF ~hasSubscribers(w) THEN publish(w, env, frame, via)
    ELSE deliverPayload(w, env, frame, [dump(frame) EXCEPT !.size = size], via)

(***************************************************************************)
(* TelemetryService                                                        *)
(***************************************************************************)
\* cache_.store on the world record; stored is the history of stores
CacheStore(w, channel, reading) ==
    [w EXCEPT !.cache = store(@, w.capacity, channel, reading),
              !.stored[channel] = Append(@, reading)]

RECURSIVE CacheStoreAll(_, _, _)
CacheStoreAll(w, channel, readings) ==
    IF readings = <<>> THEN w
    ELSE CacheStoreAll(CacheStore(w, channel, Head(readings)), channel, Tail(readings))

\* mutant of nextCorrelationId: the incremented value is not stored
nextCorrelationIdNotStored(w) ==
    [w |-> w, id |-> "frame-" \o ToString(w.corr + 1)]

\* TelemetryService::nextCorrelationId: ++correlationId_, "frame-<N>"
nextCorrelationId(w) ==
    [w |-> [w EXCEPT !.corr = @ + 1], id |-> "frame-" \o ToString(w.corr + 1)]

\* mutant of buildFrame: the readings are copied back to front
buildFrameBackwards(w, channel, readings) ==
    LET n == nextCorrelationId(w)
    IN  [w |-> n.w,
         frame |-> [channel |-> channel, readings |-> Reverse(readings),
                    snapshot |-> TRUE, correlationId |-> n.id]]

\* TelemetryService::buildFrame: snapshot is set to true
buildFrame(w, channel, readings) ==
    LET n == nextCorrelationId(w)
    IN  [w |-> n.w,
         frame |-> [channel |-> channel, readings |-> readings,
                    snapshot |-> TRUE, correlationId |-> n.id]]

\* TelemetryService::buildSnapshot: the channel's cache content as a frame
buildSnapshot(w, channel) == buildFrame(w, channel, snapshot(w.cache, channel))

\* the snapshot provider registered by the TelemetryService constructor:
\* one frame per channel, Realtime first
snapshotProvider(w) ==
    LET f1 == buildSnapshot(w, "Realtime")
        f2 == buildSnapshot(f1.w, "HistoricalEnvironment")
        f3 == buildSnapshot(f2.w, "HistoricalSoil")
    IN  [w |-> f3.w, frames |-> <<f1.frame, f2.frame, f3.frame>>]

RECURSIVE publishAll(_, _, _, _)
publishAll(w, env, frames, via) ==
    IF frames = <<>> THEN w
    ELSE publishAll(publish(w, env, Head(frames), via), env, Tail(frames), via)

processRealtimeBeginAlwaysFrames(w, env) ==
    LET r == readRealtime(w, env)
    IN  IF ~r.ok
          THEN [done |-> TRUE, frames |-> <<>>,
                w |-> Health(r.w, env, "telemetry_service", FALSE,
                             "Realtime read failed")]
          ELSE LET w1 == CacheStore(r.w, "Realtime", r.reading)
                   n  == nextCorrelationId(w1)
               IN  [done |-> FALSE, w |-> n.w,
                    frames |-> <<[channel |-> "Realtime",
                                  readings |-> <<r.reading>>,
                                  snapshot |-> FALSE,
                                  correlationId |-> n.id]>>]

\* TelemetryService::processRealtime up to the call of publish: read; on
\* failure mark telemetry_service unhealthy and return; store; when the
\* publisher has subscribers build the frame.  done says processRealtime has
\* returned; otherwise frames holds the frame about to be published.
processRealtimeBegin(w, env) ==
    LET r == readRealtime(w, env)
    IN  IF ~r.ok
          THEN [done |-> TRUE, frames |-> <<>>,
                w |-> Health(r.w, env, "telemetry_service", FALSE,
                             "Realtime read failed")]
          ELSE LET w1 == CacheStore(r.w, "Realtime", r.reading)
                   n  == nextCorrelationId(w1)
               IN  IF hasSubscribers(w1)
                     THEN [done |-> FALSE, w |-> n.w,
                           frames |-> <<[channel |-> "Realtime",
                                         readings |-> <<r.reading>>,
                                         snapshot |-> FALSE,
                                         correlationId |-> n.id]>>]
                     ELSE [done |-> TRUE, frames |-> <<>>,
                           w |-> Health(w1, env, "telemetry_service", TRUE,
                                        "Realtime frame published")]

\* the rest of processRealtime: publish the frame, mark telemetry_service healthy
processRealtimeEnd(w, env, frames) ==
    Health(publish(w, env, Head(frames), "pipeline"), env,
           "telemetry_service", TRUE, "Realtime frame published")

processHistoricalBeginBothFrames(w, env) ==
    LET env_ == loadEnvironmental(w, env, w.capacity)
        soil == loadSoilAndAir(env_.w, env, w.capacity)
        w1   == CacheStoreAll(soil.w, "HistoricalEnvironment", env_.readings)
        w2   == CacheStoreAll(w1, "HistoricalSoil", soil.readings)
        jobs == <<[channel |-> "HistoricalEnvironment", readings |-> env_.readings],
                  [channel |-> "HistoricalSoil", readings |-> soil.readings]>>
    IN  IF hasSubscribers(w2)
          THEN [done |-> FALSE, w |-> w2, frames |-> jobs]
          ELSE [done |-> TRUE, frames |-> <<>>,
                w |-> Health(w2, env, "telemetry_service", TRUE,
                             "Historical frame published")]

\* TelemetryService::processHistorical up to the first publish: load both
\* relations at limit cacheSize, store every reading, and when the publisher
\* has subscribers keep the non-empty lists for publication
processHistoricalBegin(w, env) ==
    LET env_ == loadEnvironmental(w, env, w.capacity)
        soil == loadSoilAndAir(env_.w, env, w.capacity)
        w1   == CacheStoreAll(soil.w, "HistoricalEnvironment", env_.readings)
        w2   == CacheStoreAll(w1, "HistoricalSoil", soil.readings)
        jobs == (IF env_.readings # <<>>
                   THEN <<[channel |-> "HistoricalEnvironment",
                           readings |-> env_.readings]>> ELSE <<>>)
                \o (IF soil.readings # <<>>
                      THEN <<[channel |-> "HistoricalSoil",
                              readings |-> soil.readings]>> ELSE <<>>)
    IN  IF hasSubscribers(w2) /\ jobs # <<>>
          THEN [done |-> FALSE, w |-> w2, frames |-> jobs]
          ELSE [done |-> TRUE, frames |-> <<>>,
                w |-> Health(w2, env, "telemetry_service", TRUE,
                             "Historical frame published")]

\* the rest of processHistorical: buildFrame and publish for each kept
\* list, then mark telemetry_service healthy
RECURSIVE publishJobs(_, _, _)
publishJobs(w, env, jobs) ==
    IF jobs = <<>> THEN w
    ELSE LET f == buildFrame(w, Head(jobs).channel, Head(jobs).readings)
         IN  publishJobs(publish(f.w, env, f.frame, "pipeline"), env, Tail(jobs))

processHistoricalEnd(w, env, jobs) ==
    Health(publishJobs(w, env, jobs), env, "telemetry_service", TRUE,
           "Historical frame published")

\* ServerListener::OnClose: erase-remove every occurrence of the id
listenerOnClose(ids, id) == SelectSeq(ids, LAMBDA x : x # id)

\* ServerListener::OnAccept: push_back the id
listenerOnAccept(ids, id) == Append(ids, id)

\* TelemetryPublisher::OnAccept up to the publish loop: the listener
\* records the id, the health entry is updated and, when a snapshot provider
\* is registered, it is called for the frames to publish
onAcceptBegin(w, env, id) ==
    LET w1 == Health([w EXCEPT !.ids = listenerOnAccept(@, id)], env,
                     "telemetry_publisher", TRUE,
                     "Client connected: " \o ToString(id))
        p  == snapshotProvider(w1)
    IN  IF w.provider THEN [w |-> p.w, frames |-> p.frames]
        ELSE [w |-> w1, frames |-> <<>>]

\* the publish loop of OnAccept: every frame of the provider, in list order
onAcceptEnd(w, env, frames) == publishAll(w, env, frames, "join")

\* TelemetryPublisher::OnClose: health update, then the listener erases the id
onClose(w, env, id) ==
    [Health(w, env, "telemetry_publisher", TRUE,
            "Client disconnected: " \o ToString(id))
        EXCEPT !.ids = listenerOnClose(@, id)]

\* the respond callback, for every line with a non-empty reply
RECURSIVE Replies(_, _, _)
Replies(log, id, out) ==
    IF out = <<>> THEN log
    ELSE IF Head(out).reply = "" THEN Replies(log, id, Tail(out))
    ELSE Replies(SendTo(log, id, [kind |-> "reply", ok |-> TRUE, prefix |-> <<>>,
                                   body |-> NoPayload, count |-> 0,
                                   text |-> Head(out).reply, via |-> "router"]),
                 id, Tail(out))

\* TelemetryPublisher::OnReceive: the chunk goes to the router under the
\* connection id; every reply is sent back on the connection followed by a
\* newline.  Returns the world, the connection's new buffer and the lines
\* dispatched.
onReceive(w, env, id, buffer, chunk) ==
    LET r == feed(buffer, chunk, w, env)
    IN  [w |-> [r.w EXCEPT !.sent = Replies(@, id, r.out)],
         buffer |-> r.buffer, out |-> r.out]

(***************************************************************************)
(* The program's state as the record the operators work on, and back.      *)
(***************************************************************************)
\* the version of a configuration built by buildDefaultConfig
DefaultVersion == 0

\* ConfigurationManager::fromJson on the text of a version of the file, and
\* buildDefaultConfig for DefaultVersion.  Version 1 is the file the program
\* boots with; every later version has other values in each member.
fromJson(version) ==
    IF version = DefaultVersion
      THEN [pipeline  |-> [realtimeIntervalSeconds |-> 5,
                           historicalIntervalSeconds |-> 30],
            sensor    |-> [retrySeconds |-> 5, registers |-> 6],
            publisher |-> [bindAddress |-> "0.0.0.0", port |-> 5555]]
      ELSE [pipeline  |-> [realtimeIntervalSeconds |-> RealtimeSeconds + version - 1,
                           historicalIntervalSeconds |-> HistoricalSeconds + version - 1],
            sensor    |-> [retrySeconds |-> RetrySeconds + version - 1,
                           registers |-> 6 + version - 1],
            publisher |-> [bindAddress |-> IF version = 1 THEN "0.0.0.0" ELSE "127.0.0.1",
                           port |-> 5555 + version - 1]]

\* mutant of TelemetryServiceConfig: the service keeps a reference to the
\* manager's configuration
TelemetryServiceConfigByReference == fromJson(config_).pipeline

\* the configuration runLoop reads: the service's own copy
TelemetryServiceConfig == pipelineConfig_

\* the diagnostics provider built in main: subscribers and the two
\* intervals, read through main's reference to the manager's configuration
diagnosticsProvider(subscribers, config) ==
    "{\"pipeline\":{\"historicalSeconds\":"
      \o ToString(config.pipeline.historicalIntervalSeconds)
      \o ",\"realtimeSeconds\":" \o ToString(config.pipeline.realtimeIntervalSeconds)
      \o "},\"telemetry\":{\"subscribers\":"
      \o (IF subscribers THEN "true" ELSE "false") \o "}}"

\* rows of the two historical relations, oldest first (their time column)
EnvRows == <<"e1", "e2">>
SoilRows == <<"s1">>

World ==
    [modbus |-> modbus_, lastAttempt |-> lastAttempt_, holding |-> holding,
     states |-> states_, reload |-> reloadRequested, trace |-> <<>>,
     made |-> made, conns |-> serverConns, ids |-> connIDs_, sent |-> sent,
     calls |-> <<>>, provider |-> snapshotProvider_, cache |-> cache_,
     capacity |-> capacity_, stored |-> stored, corr |-> correlationId_]

Env ==
    [now |-> now, up |-> endpointUp, ub |-> ubCast,
     diag |-> diagnosticsProvider(Cardinality(serverConns) > 0, fromJson(config_)),
     retrySeconds |-> sensorConfig_.retrySeconds,
     dead |-> deadPeers, dbUp |-> dbUp, soilUp |-> soilUp, envRows |-> EnvRows,
     soilRows |-> SoilRows]

\* the next state of every variable an operator can change
Commit(w) ==
    \E v \in {w} :
        /\ modbus_' = v.modbus
        /\ lastAttempt_' = v.lastAttempt
        /\ holding' = v.holding
        /\ states_' = v.states
        /\ reloadRequested' = v.reload
        /\ made' = v.made
        /\ connIDs_' = v.ids
        /\ sent' = v.sent
        /\ pubCalls' = v.calls
        /\ cache_' = v.cache
        /\ stored' = v.stored
        /\ correlationId_' = v.corr

\* the connection ids the transport hands out, and the number of
\* connections it accepts: every id is given out at most once
ConnIds == {1, 2}
MaxAccepts == Cardinality(ConnIds)

\* the clock starts far enough from the epoch of lastAttempt_ for the first
\* connection attempt to be outside the retry window
StartClock == RetrySeconds
MaxClock == StartClock + ClockSpan

\* ConfigurationManager's constructor found the file and parsed it:
\* loadFromDisk recorded its modification time; main is at the head of its
\* poll loop
SupervisorConstructed ==
    /\ configFile = [exists |-> TRUE, mtime |-> 1]
    /\ lastWriteTime_ = 1
    /\ config_ = 1
    /\ mainPc = "exchange"
    /\ pollFlag = FALSE
    /\ pollCurrent = 0
    /\ pollLog = <<>>
    /\ edits = 0

\* the threads that call into the gateway: the pipeline worker and the
\* publisher's I/O threads
IoThreads == {"io1", "io2"}
GatewayThreads == {"pipeline"} \cup IoThreads

Idle == [pc |-> "idle", method |-> "", address |-> 0, value |-> 0]

\* neither the pipeline worker nor an I/O thread is inside the gateway
CallersConstructed ==
    /\ gwCalls = <<>>
    /\ mutex_ = "free"
    /\ gwPc = [t \in GatewayThreads |-> Idle]
    /\ accesses = <<>>

NoUpdate == [pc |-> "idle", component |-> "", healthy |-> FALSE, detail |-> ""]

\* HealthMonitor::start has spawned the writer, which has not flushed yet
MonitorConstructed ==
    /\ healthMutex = "free"
    /\ updPc = [t \in GatewayThreads |-> NoUpdate]
    /\ applied = <<>>
    /\ running_ = TRUE
    /\ writerPc = "check"
    /\ writerFinal = FALSE
    /\ writerSnapshot = <<>>
    /\ healthFile = [exists |-> FALSE, text |-> <<>>]
    /\ flushLog = <<>>
    /\ stopIndex = 0

IdsConstructed ==
    /\ issued = <<>>
    /\ building = [t \in IoThreads |-> <<>>]

\* main is in its poll loop: the publisher listens; the TelemetryService
\* and the VideoManager are not started yet
LifeConstructed ==
    /\ shouldRun = TRUE
    /\ exitCode = "none"
    /\ listening = {"publisher"}
    /\ svcRunning_ = FALSE
    /\ videoRunning_ = FALSE
    /\ relayPc = "none"
    /\ lifeLog = <<>>

\* VideoManager::VideoManager: no client, an empty queue
VideoConstructed ==
    /\ videoConns = {}
    /\ clients_ = <<>>
    /\ packetQueue_ = <<>>
    /\ relayPkt = <<>>
    /\ videoLog = <<>>
    /\ videoSent = <<>>

\* no load has been asked for
NoLoad == [relation |-> "none", result |-> <<>>, readings |-> <<>>]

LoadConstructed ==
    /\ loadTable = <<>>
    /\ loadLimit = 1
    /\ loadOut = NoLoad

\* an I/O thread outside OnReceive
IdleIo == [pc |-> "idle", id |-> 0, chunk |-> <<>>, node |-> "none",
           raced |-> FALSE, writes |-> <<>>]

\* each constructor copies its part of the configuration main read; no I/O
\* thread is inside OnReceive
CopiesConstructed ==
    /\ pipelineConfig_ = fromJson(config_).pipeline
    /\ sensorConfig_ = fromJson(config_).sensor
    /\ publisherConfig_ = fromJson(config_).publisher
    /\ ioPc = [t \in IoThreads |-> IdleIo]
    /\ mapRaces = {}

LaterConstructed ==
    /\ SupervisorConstructed
    /\ CallersConstructed
    /\ MonitorConstructed
    /\ IdsConstructed
    /\ LifeConstructed
    /\ VideoConstructed
    /\ LoadConstructed
    /\ CopiesConstructed

\* TelemetryPublisher::start: the server listens, the health entry is set
ListeningStates == update(<<>>, "telemetry_publisher", TRUE, "Server listening", StartClock)

\* the gateway, the router and the publisher as their constructors leave
\* them; the TelemetryService is not built yet
PlanesConstructed ==
    /\ cache_ = <<>>
    /\ stored = [c \in TelemetryChannel |-> <<>>]
    /\ snapOut = NoSnapshot
    /\ now = StartClock
    /\ wire = [c \in ConnIds |-> <<>>]
    /\ linesWritten = 0
    /\ deadPeers = {}
    /\ accepts = 0
    /\ published = 0
    /\ modbus_ = FALSE
    /\ lastAttempt_ = 0
    /\ holding = <<>>
    /\ made = 0
    /\ buffers_ = <<>>
    /\ reloadRequested = FALSE
    /\ fed = [c \in ConnIds |-> <<>>]
    /\ dispatched = [c \in ConnIds |-> <<>>]
    /\ serverConns = {}
    /\ connIDs_ = <<>>
    /\ snapshotProvider_ = FALSE
    /\ acceptPending = [c \in ConnIds |-> <<>>]
    /\ sent = [c \in ConnIds |-> <<>>]
    /\ pubCalls = <<>>
    /\ acceptLog = <<>>
    /\ correlationId_ = 0
    /\ pc = "unbuilt"
    /\ pipePending = <<>>
    /\ iterStart = 0
    /\ lastHistorical = 0

\* the state after main has constructed the gateway, the router and the
\* publisher and started the publisher
Constructed ==
    /\ states_ = ListeningStates
    /\ PlanesConstructed
    /\ LaterConstructed

(***************************************************************************)
(* Specification of the cache alone: callers store and take snapshots.     *)
(***************************************************************************)
CacheInit ==
    /\ Constructed
    /\ capacity_ \in 1..MaxCapacity
    /\ endpointUp = TRUE
    /\ dbUp = TRUE
    /\ soilUp = TRUE
    /\ ubCast = "wrap"

TotalStored == Len(stored["Realtime"]) + Len(stored["HistoricalEnvironment"])
                 + Len(stored["HistoricalSoil"])

\* a caller stores one reading on one channel
Store(c, r) ==
    /\ TotalStored < MaxStores
    /\ cache_' = store(cache_, capacity_, c, r)
    /\ stored' = [stored EXCEPT ![c] = Append(@, r)]
    /\ UNCHANGED <<capacity_, snapOut, envVars, gatewayVars, routerVars,
                   publisherVars, serviceVars>>
    /\ UNCHANGED laterVars

\* a caller takes a snapshot of one channel
Snapshot(c) ==
    /\ snapOut' = [channel |-> c, readings |-> snapshot(cache_, c),
                   n |-> Len(stored[c])]
    /\ UNCHANGED <<capacity_, cache_, stored, envVars, gatewayVars, routerVars,
                   publisherVars, serviceVars>>
    /\ UNCHANGED laterVars

CacheNext ==
    \/ \E c \in TelemetryChannel, r \in SampleReadings : Store(c, r)
    \/ \E c \in TelemetryChannel : Snapshot(c)

SpecCache == CacheInit /\ [][CacheNext]_vars

(***************************************************************************)
(* Inbound command texts                                                   *)
(***************************************************************************)
Obj(members) == <<Tok("{")>> \o members \o <<Tok("}")>>

\* {"type":"threshold","soil":50.0,"rain":30.0,"temp":25.0,"light":800}
ThresholdText ==
    Obj(<<StrF("type", "threshold"), NumF("soil", 50000), NumF("rain", 30000),
          NumF("temp", 25000), NumF("light", 800000)>>)
\* {"type":"threshold","soil":12.345,"rain":0.5,"temp":25.0,"light":100}
FractionText ==
    Obj(<<StrF("type", "threshold"), NumF("soil", 12345), NumF("rain", 500),
          NumF("temp", 25000), NumF("light", 100000)>>)
\* {"type":"light_control","light":100}
LightText == Obj(<<StrF("type", "light_control"), NumF("light", 100000)>>)
\* {"type":"mode_select","mode":1}
ModeText == Obj(<<StrF("type", "mode_select"), NumF("mode", 1000)>>)
\* {"type":"write_register","address":20,"value":5000}
WriteText ==
    Obj(<<StrF("type", "write_register"), NumF("address", 20000),
          NumF("value", 5000000)>>)
\* {"type":"write_register","value":7}
WriteAbsentText == Obj(<<StrF("type", "write_register"), NumF("value", 7000)>>)
\* {"type":"write_register","address":-1,"value":7}
WriteNegativeText ==
    Obj(<<StrF("type", "write_register"), NumF("address", -1000),
          NumF("value", 7000)>>)
\* {"type":"write_register","address":0,"value":0}
WriteZeroText ==
    Obj(<<StrF("type", "write_register"), NumF("address", 0), NumF("value", 0)>>)
\* {"type":"write_register","address":70000,"value":-1}
WriteWideText ==
    Obj(<<StrF("type", "write_register"), NumF("address", 70000000),
          NumF("value", -1000)>>)
\* {"type":"config_reload"}
ReloadText == Obj(<<StrF("type", "config_reload")>>)
\* {"type":"nope"}
NopeText == Obj(<<StrF("type", "nope")>>)
\* {"type":5}
NumberTypeText == Obj(<<NumF("type", 5000)>>)
\* []
ArrayText == <<Tok("["), Tok("]")>>
\* {"type":  (cut short: no JSON text)
GarbageText == <<Tok("{"), StrF("type", "mode_select")>>

\* the texts of the router specification: the error cases among commands
\* that work
RouterTexts ==
    {GarbageText, ArrayText, NumberTypeText, NopeText, Obj(<<>>), ReloadText}

\* the texts of the gateway specification: the commands that write registers
GatewayTexts == {ThresholdText, FractionText, LightText, ModeText, WriteText}

WriteCommands == {"threshold", "light_control", "mode_select", "write_register"}
RecognisedTypes == WriteCommands \cup {"diagnostics", "config_reload"}

\* the texts of the line-splitter specification
SplitTexts == {ModeText, NopeText, GarbageText, <<>>}

(***************************************************************************)
(* The command plane: clients write lines, the transport delivers them in  *)
(* chunks to OnReceive, the clock advances, the Modbus endpoint comes and  *)
(* goes.                                                                   *)
(***************************************************************************)
\* the connections of the command-plane specifications
RouterConns == {1}

\* health entries once connection 1 has been accepted, before the
\* TelemetryService exists (no snapshot provider, nothing sent)
ConnectedStates ==
    update(ListeningStates, "telemetry_publisher", TRUE,
           "Client connected: " \o ToString(1), StartClock)

RouterBase ==
    /\ capacity_ = 1
    /\ cache_ = <<>>
    /\ stored = [c \in TelemetryChannel |-> <<>>]
    /\ snapOut = NoSnapshot
    /\ now = StartClock
    /\ endpointUp \in BOOLEAN
    /\ ubCast \in {"wrap", "saturate"}
    /\ dbUp = TRUE
    /\ soilUp = TRUE
    /\ wire = [c \in ConnIds |-> <<>>]
    /\ linesWritten = 0
    /\ deadPeers = {}
    /\ accepts = 1
    /\ published = 0
    /\ states_ = ConnectedStates
    /\ modbus_ = FALSE
    /\ lastAttempt_ = 0
    /\ holding = <<>>
    /\ made = 0
    /\ buffers_ = <<>>
    /\ reloadRequested = FALSE
    /\ fed = [c \in ConnIds |-> <<>>]
    /\ dispatched = [c \in ConnIds |-> <<>>]
    /\ serverConns = RouterConns
    /\ connIDs_ = <<1>>
    /\ snapshotProvider_ = FALSE
    /\ acceptPending = [c \in ConnIds |-> <<>>]
    /\ sent = [c \in ConnIds |-> <<>>]
    /\ pubCalls = <<>>
    /\ acceptLog = <<>>
    /\ correlationId_ = 0
    /\ pc = "unbuilt"
    /\ pipePending = <<>>
    /\ iterStart = 0
    /\ lastHistorical = 0

RouterInit == RouterBase /\ LaterConstructed

\* the pending bytes of a connection: buffers_[c], created empty on first use
BufferOf(c) == IF c \in DOMAIN buffers_ THEN buffers_[c] ELSE <<>>

\* a client writes one command line, newline included
ClientWrites(c, text) ==
    /\ c \in serverConns
    /\ linesWritten < MaxLines
    /\ linesWritten' = linesWritten + 1
    /\ wire' = [wire EXCEPT ![c] = @ \o text \o <<NL>>]
    /\ UNCHANGED <<now, endpointUp, ubCast, deadPeers, accepts, dbUp, soilUp, published>>
    /\ UNCHANGED <<cacheVars, gatewayVars, routerVars, publisherVars, serviceVars>>
    /\ UNCHANGED laterVars

\* the client of the line-splitter specification writes one line
SplitWrites(c, text) ==
    /\ c \in serverConns
    /\ linesWritten < SplitLines
    /\ linesWritten' = linesWritten + 1
    /\ wire' = [wire EXCEPT ![c] = @ \o text \o <<NL>>]
    /\ UNCHANGED <<now, endpointUp, ubCast, deadPeers, accepts, dbUp, soilUp, published>>
    /\ UNCHANGED <<cacheVars, gatewayVars, routerVars, publisherVars, serviceVars>>
    /\ UNCHANGED laterVars

\* TelemetryPublisher::OnReceive for the first k pending bytes of c
Receive(c, k) ==
    /\ c \in serverConns
    /\ k \in 1..Len(wire[c])
    /\ LET chunk == SubSeq(wire[c], 1, k)
           r     == onReceive(World, Env, c, BufferOf(c), chunk)
       IN  /\ Commit(r.w)
           /\ buffers_' = [d \in DOMAIN buffers_ \cup {c} |->
                              IF d = c THEN r.buffer ELSE buffers_[d]]
           /\ fed' = [fed EXCEPT ![c] = Append(@, chunk)]
           /\ dispatched' = [dispatched EXCEPT ![c] = @ \o r.out]
           /\ wire' = [wire EXCEPT ![c] = SubSeq(@, k + 1, Len(@))]
    /\ UNCHANGED <<capacity_, snapOut, now, endpointUp, ubCast, linesWritten,
                   deadPeers, accepts, dbUp, soilUp, published>>
    /\ UNCHANGED <<serverConns, snapshotProvider_, acceptPending, acceptLog>>
    /\ UNCHANGED <<pc, pipePending, iterStart, lastHistorical>>
    /\ UNCHANGED laterVars

\* one unit of time passes
Tick ==
    /\ now < MaxClock
    /\ now' = now + 1
    /\ UNCHANGED <<endpointUp, ubCast, wire, linesWritten, deadPeers, accepts, dbUp, soilUp, published>>
    /\ UNCHANGED <<cacheVars, gatewayVars, routerVars, publisherVars, serviceVars>>
    /\ UNCHANGED laterVars

\* the Modbus endpoint goes away or comes back
EndpointFlips ==
    /\ endpointUp' = ~endpointUp
    /\ UNCHANGED <<now, ubCast, wire, linesWritten, deadPeers, accepts, dbUp, soilUp, published>>
    /\ UNCHANGED <<cacheVars, gatewayVars, routerVars, publisherVars, serviceVars>>
    /\ UNCHANGED laterVars

\* the sizes in which the transport delivers pending bytes: a single byte,
\* up to just before or just after a newline, or everything
ChunkCuts(bytes) ==
    {1, Len(bytes)}
      \cup {p \in 1..Len(bytes) : bytes[p] = NL}
      \cup {p \in 1..(Len(bytes) - 1) : bytes[p + 1] = NL}

RouterNext ==
    \/ \E c \in RouterConns, text \in RouterTexts : ClientWrites(c, text)
    \/ \E c \in RouterConns : \E k \in ChunkCuts(wire[c]) : Receive(c, k)

SpecRouter == RouterInit /\ [][RouterNext]_vars

\* a client writes one command line and the transport delivers it whole:
\* TelemetryPublisher::OnReceive for that line
ReceiveLine(c, text) ==
    /\ c \in serverConns
    /\ wire[c] = <<>>
    /\ linesWritten < MaxLines
    /\ linesWritten' = linesWritten + 1
    /\ LET chunk == text \o <<NL>>
           r     == onReceive(World, Env, c, BufferOf(c), chunk)
       IN  /\ Commit(r.w)
           /\ buffers_' = [d \in DOMAIN buffers_ \cup {c} |->
                              IF d = c THEN r.buffer ELSE buffers_[d]]
           /\ fed' = [fed EXCEPT ![c] = Append(@, chunk)]
           /\ dispatched' = [dispatched EXCEPT ![c] = @ \o r.out]
    /\ UNCHANGED <<capacity_, snapOut, now, endpointUp, ubCast, wire,
                   deadPeers, accepts, dbUp, soilUp, published>>
    /\ UNCHANGED <<serverConns, snapshotProvider_, acceptPending, acceptLog>>
    /\ UNCHANGED <<pc, pipePending, iterStart, lastHistorical>>
    /\ UNCHANGED laterVars

GatewayNext ==
    \/ \E c \in RouterConns, text \in GatewayTexts : ReceiveLine(c, text)
    \/ Tick
    \/ EndpointFlips

SpecGateway == RouterInit /\ [][GatewayNext]_vars

\* the texts of the register-write specification: write_register with the
\* address absent, negative, zero, in the 16-bit range and beyond it
DirectWriteTexts ==
    {WriteAbsentText, WriteNegativeText, WriteZeroText, WriteText, WriteWideText}

DirectWriteNext ==
    \/ \E c \in RouterConns, text \in DirectWriteTexts : ReceiveLine(c, text)
    \/ Tick
    \/ EndpointFlips

SpecDirectWrite == RouterInit /\ [][DirectWriteNext]_vars

SplitInit ==
    /\ RouterInit
    /\ ubCast = "wrap"
    /\ endpointUp

SplitNext ==
    \/ \E c \in RouterConns, text \in SplitTexts : SplitWrites(c, text)
    \/ \E c \in RouterConns : \E k \in 1..Len(wire[c]) : Receive(c, k)

SpecSplit == SplitInit /\ [][SplitNext]_vars

(***************************************************************************)
(* The telemetry plane: main builds and starts the TelemetryService, the   *)
(* pipeline worker runs runLoop, connections are accepted and closed on    *)
(* the transport's threads, peers die, the clock advances.                 *)
(***************************************************************************)
PublisherInit ==
    /\ Constructed
    /\ capacity_ = MaxCapacity
    /\ endpointUp = TRUE
    /\ dbUp = TRUE
    /\ soilUp = TRUE
    /\ ubCast = "wrap"

\* a start or a stop of a component, with what the pipeline had stored by
\* then
LifeEvent(event, component) ==
    [event |-> event, component |-> component, stored |-> stored]

\* main: the TelemetryService constructor registers the snapshot provider,
\* start() spawns the worker, which initialises lastHistorical
TelemetryServiceStarts ==
    /\ pc = "unbuilt"
    /\ snapshotProvider_' = TRUE
    /\ svcRunning_' = TRUE
    /\ lifeLog' = Append(lifeLog, LifeEvent("start", "pipeline"))
    /\ pc' = "realtime"
    /\ lastHistorical' = now - TelemetryServiceConfig.historicalIntervalSeconds
    /\ UNCHANGED <<cacheVars, envVars, gatewayVars, routerVars>>
    /\ UNCHANGED <<serverConns, connIDs_, acceptPending, sent, pubCalls, acceptLog>>
    /\ UNCHANGED <<correlationId_, pipePending, iterStart>>
    /\ UNCHANGED <<callerVars, monitorVars, idVars, videoVars, loadVars, copyVars, feedVars>>
    /\ UNCHANGED <<configFile, lastWriteTime_, config_, pollFlag, pollCurrent, pollLog, edits>>
    /\ UNCHANGED <<shouldRun, exitCode, listening, videoRunning_, relayPc>>

StartTelemetryService == TelemetryServiceStarts /\ UNCHANGED mainPc

\* the transport accepts a connection, which gets the next id, and runs
\* OnAccept up to its publish loop
Accept(c) ==
    /\ "publisher" \in listening
    /\ c \notin serverConns
    /\ c = accepts + 1
    /\ accepts < MaxAccepts
    /\ accepts' = accepts + 1
    /\ serverConns' = serverConns \cup {c}
    /\ LET r == onAcceptBegin([World EXCEPT !.conns = @ \cup {c},
                                            !.sent[c] = <<>>], Env, c)
       IN  /\ Commit(r.w)
           /\ acceptPending' = [acceptPending EXCEPT ![c] = r.frames]
           /\ acceptLog' = Append(acceptLog,
                                  [id |-> c, provided |-> snapshotProvider_,
                                   cache |-> cache_, frames |-> r.frames,
                                   calls |-> <<>>, done |-> r.frames = <<>>])
    /\ UNCHANGED <<capacity_, snapOut, now, endpointUp, ubCast, wire,
                   linesWritten, deadPeers, dbUp, soilUp, published, snapshotProvider_>>
    /\ UNCHANGED <<buffers_, fed, dispatched>>
    /\ UNCHANGED <<pc, pipePending, iterStart, lastHistorical>>
    /\ UNCHANGED laterVars

\* the publish loop of the OnAccept running for connection c
AcceptPublish(c) ==
    /\ acceptPending[c] # <<>>
    /\ LET w == onAcceptEnd(World, Env, acceptPending[c])
           i == CHOOSE j \in 1..Len(acceptLog) :
                   acceptLog[j].id = c /\ ~acceptLog[j].done
       IN  /\ Commit(w)
           /\ acceptLog' = [acceptLog EXCEPT ![i].calls = w.calls,
                                             ![i].done = TRUE]
    /\ acceptPending' = [acceptPending EXCEPT ![c] = <<>>]
    /\ UNCHANGED <<capacity_, snapOut, envVars, serverConns, snapshotProvider_>>
    /\ UNCHANGED <<buffers_, fed, dispatched>>
    /\ UNCHANGED <<pc, pipePending, iterStart, lastHistorical>>
    /\ UNCHANGED laterVars

\* connection c closes: OnClose runs and the transport forgets the connection
Close(c) ==
    /\ c \in serverConns
    /\ acceptPending[c] = <<>>
    /\ serverConns' = serverConns \ {c}
    /\ deadPeers' = deadPeers \ {c}
    /\ wire' = [wire EXCEPT ![c] = <<>>]
    /\ Commit(onClose(World, Env, c))
    /\ UNCHANGED <<capacity_, snapOut, now, endpointUp, ubCast, linesWritten,
                   accepts, dbUp, soilUp, published>>
    /\ UNCHANGED <<snapshotProvider_, acceptPending, acceptLog>>
    /\ UNCHANGED <<buffers_, fed, dispatched>>
    /\ UNCHANGED <<pc, pipePending, iterStart, lastHistorical>>
    /\ UNCHANGED laterVars

\* the peer of connection c goes away; the close has not been delivered yet
\* and every Send to c fails from now on
PeerDies(c) ==
    /\ c \in serverConns
    /\ c \notin deadPeers
    /\ deadPeers' = deadPeers \cup {c}
    /\ UNCHANGED <<now, endpointUp, ubCast, wire, linesWritten, accepts, dbUp, soilUp, published>>
    /\ UNCHANGED <<cacheVars, gatewayVars, routerVars, publisherVars, serviceVars>>
    /\ UNCHANGED laterVars

\* runLoop: while (running_): start = now; processRealtime up to its publish
PipelineRealtime ==
    /\ pc = "realtime"
    /\ svcRunning_
    /\ iterStart' = now
    /\ \E r \in {processRealtimeBegin(World, Env)} :
           /\ Commit(r.w)
           /\ pipePending' = r.frames
           /\ pc' = IF r.done THEN "historical" ELSE "realtime_publish"
    /\ UNCHANGED <<capacity_, snapOut, envVars, lastHistorical>>
    /\ UNCHANGED <<serverConns, snapshotProvider_, acceptPending, acceptLog>>
    /\ UNCHANGED <<buffers_, fed, dispatched>>
    /\ UNCHANGED laterVars

\* runLoop: the publish of processRealtime and its health update
PipelineRealtimePublish ==
    /\ pc = "realtime_publish"
    /\ Commit(processRealtimeEnd(World, Env, pipePending))
    /\ pipePending' = <<>>
    /\ pc' = "historical"
    /\ UNCHANGED <<capacity_, snapOut, envVars, lastHistorical, iterStart>>
    /\ UNCHANGED <<serverConns, snapshotProvider_, acceptPending, acceptLog>>
    /\ UNCHANGED <<buffers_, fed, dispatched>>
    /\ UNCHANGED laterVars

PipelineHistoricalStrict ==
    /\ pc = "historical"
    /\ IF now - lastHistorical > TelemetryServiceConfig.historicalIntervalSeconds
         THEN \E r \in {processHistoricalBegin(World, Env)} :
                  /\ Commit(r.w)
                  /\ pipePending' = r.frames
                  /\ pc' = IF r.done THEN "sleep" ELSE "historical_publish"
                  /\ lastHistorical' = IF r.done THEN now ELSE lastHistorical
         ELSE /\ pc' = "sleep"
              /\ UNCHANGED <<cache_, stored, gatewayVars, reloadRequested,
                             connIDs_, sent, pubCalls, correlationId_,
                             pipePending, lastHistorical>>
    /\ UNCHANGED <<capacity_, snapOut, envVars, iterStart>>
    /\ UNCHANGED <<serverConns, snapshotProvider_, acceptPending, acceptLog>>
    /\ UNCHANGED <<buffers_, fed, dispatched>>
    /\ UNCHANGED laterVars

\* runLoop: when the historical interval has passed, processHistorical up
\* to its first publish
PipelineHistorical ==
    /\ pc = "historical"
    /\ IF now - lastHistorical >= TelemetryServiceConfig.historicalIntervalSeconds
         THEN \E r \in {processHistoricalBegin(World, Env)} :
                  /\ Commit(r.w)
                  /\ pipePending' = r.frames
                  /\ pc' = IF r.done THEN "sleep" ELSE "historical_publish"
                  /\ lastHistorical' = IF r.done THEN now ELSE lastHistorical
         ELSE /\ pc' = "sleep"
              /\ UNCHANGED <<cache_, stored, gatewayVars, reloadRequested,
                             connIDs_, sent, pubCalls, correlationId_,
                             pipePending, lastHistorical>>
    /\ UNCHANGED <<capacity_, snapOut, envVars, iterStart>>
    /\ UNCHANGED <<serverConns, snapshotProvider_, acceptPending, acceptLog>>
    /\ UNCHANGED <<buffers_, fed, dispatched>>
    /\ UNCHANGED laterVars

\* runLoop: the publishes of processHistorical, its health update, and
\* lastHistorical = now
PipelineHistoricalPublish ==
    /\ pc = "historical_publish"
    /\ Commit(processHistoricalEnd(World, Env, pipePending))
    /\ pipePending' = <<>>
    /\ lastHistorical' = now
    /\ pc' = "sleep"
    /\ UNCHANGED <<capacity_, snapOut, envVars, iterStart>>
    /\ UNCHANGED <<serverConns, snapshotProvider_, acceptPending, acceptLog>>
    /\ UNCHANGED <<buffers_, fed, dispatched>>
    /\ UNCHANGED laterVars

\* runLoop: sleep_for what is left of the realtime interval; the clock
\* stands at the end of the interval or later when the worker wakes up.
\* While the service runs, a sleep does not take the clock past
\* StartClock + PipelineSpan.
PipelineSleep ==
    /\ pc = "sleep"
    /\ svcRunning_ =>
          Max(now, iterStart + TelemetryServiceConfig.realtimeIntervalSeconds)
              <= Max(now, StartClock + PipelineSpan)
    /\ now' = Max(now, iterStart + TelemetryServiceConfig.realtimeIntervalSeconds)
    /\ pc' = "realtime"
    /\ UNCHANGED <<endpointUp, ubCast, wire, linesWritten, deadPeers, accepts, dbUp, soilUp, published>>
    /\ UNCHANGED <<cacheVars, gatewayVars, routerVars, publisherVars>>
    /\ UNCHANGED <<correlationId_, pipePending, iterStart, lastHistorical>>
    /\ UNCHANGED laterVars

PublisherNext ==
    \/ StartTelemetryService
    \/ \E c \in ConnIds : Accept(c)
    \/ \E c \in ConnIds : AcceptPublish(c)
    \/ \E c \in ConnIds : Close(c)
    \/ PipelineRealtime
    \/ PipelineRealtimePublish
    \/ PipelineHistorical
    \/ PipelineHistoricalPublish
    \/ PipelineSleep

SpecPublisher == PublisherInit /\ [][PublisherNext]_vars

(***************************************************************************)
(* The pipeline worker while the Modbus endpoint and the database come and *)
(* go and subscribers connect and leave.                                   *)
(***************************************************************************)
PipelineInit ==
    /\ Constructed
    /\ capacity_ = MaxCapacity
    /\ endpointUp \in BOOLEAN
    /\ dbUp \in BOOLEAN
    /\ soilUp \in BOOLEAN
    /\ ubCast = "wrap"

\* the database goes away or comes back
DatabaseFlips ==
    /\ dbUp' = ~dbUp
    /\ UNCHANGED <<now, endpointUp, ubCast, wire, linesWritten, deadPeers, accepts, soilUp,
                   published>>
    /\ UNCHANGED <<cacheVars, gatewayVars, routerVars, publisherVars, serviceVars>>
    /\ UNCHANGED laterVars

\* the one subscriber of this specification
PipelineConns == {1}

\* the queries on soil_and_air_quality begin to fail, or succeed again
SoilFlips ==
    /\ soilUp' = ~soilUp
    /\ UNCHANGED <<now, endpointUp, ubCast, wire, linesWritten, deadPeers, accepts, dbUp,
                   published>>
    /\ UNCHANGED <<cacheVars, gatewayVars, routerVars, publisherVars, serviceVars>>
    /\ UNCHANGED laterVars

PipelineNext ==
    \/ StartTelemetryService
    \/ \E c \in PipelineConns : Accept(c)
    \/ \E c \in PipelineConns : AcceptPublish(c)
    \/ \E c \in PipelineConns : Close(c)
    \/ PipelineRealtime
    \/ PipelineRealtimePublish
    \/ PipelineHistorical
    \/ PipelineHistoricalPublish
    \/ PipelineSleep
    \/ EndpointFlips
    \/ DatabaseFlips
    \/ SoilFlips

SpecPipeline == PipelineInit /\ [][PipelineNext]_vars

(***************************************************************************)
(* The cadence of the pipeline worker: the clock advances at any moment,   *)
(* also while the worker is inside an iteration.                           *)
(***************************************************************************)
CadenceNext ==
    \/ StartTelemetryService
    \/ \E c \in PipelineConns : Accept(c)
    \/ \E c \in PipelineConns : AcceptPublish(c)
    \/ PipelineRealtime
    \/ PipelineRealtimePublish
    \/ PipelineHistorical
    \/ PipelineHistoricalPublish
    \/ PipelineSleep
    \/ Tick

SpecCadence == PublisherInit /\ [][CadenceNext]_vars

(***************************************************************************)
(* The publisher under arbitrary callers of publish: connections come and  *)
(* go, peers die, and a caller publishes frames at any moment.             *)
(***************************************************************************)
\* frames a caller hands to publish
SampleFrames ==
    {[channel |-> "Realtime", snapshot |-> FALSE, correlationId |-> "frame-1",
      readings |-> <<[label |-> "Realtime", timestamp |-> StartClock, seq |-> 1]>>],
     [channel |-> "HistoricalSoil", snapshot |-> TRUE, correlationId |-> "frame-2",
      readings |-> <<>>]}

\* a caller calls publish(frame)
Publish(frame) ==
    /\ published < MaxPublishes
    /\ published' = published + 1
    /\ Commit(publish(World, Env, frame, "caller"))
    /\ UNCHANGED <<now, endpointUp, ubCast, wire, linesWritten, deadPeers, accepts, dbUp, soilUp>>
    /\ UNCHANGED <<capacity_, snapOut, buffers_, fed, dispatched>>
    /\ UNCHANGED <<serverConns, snapshotProvider_, acceptPending, acceptLog>>
    /\ UNCHANGED <<pc, pipePending, iterStart, lastHistorical>>
    /\ UNCHANGED laterVars

FanOutNext ==
    \/ \E c \in ConnIds : Accept(c)
    \/ \E c \in ConnIds : Close(c)
    \/ \E c \in ConnIds : PeerDies(c)
    \/ \E frame \in SampleFrames : Publish(frame)

SpecFanOut == PublisherInit /\ [][FanOutNext]_vars

(***************************************************************************)
(* Framing: one subscriber, and a caller publishing frames whose           *)
(* serialised bodies have sizes from one byte to 2^31 - 1 bytes.           *)
(***************************************************************************)
FrameSizes ==
    {1, 255, 256, 65535, 65536, 16777215, 16777216, 1073741824}
      \cup {2147483647 - d : d \in 0..5}

\* a caller calls publish with a frame whose body has size bytes
PublishSized(frame, size) ==
    /\ published < MaxPublishes
    /\ published' = published + 1
    /\ Commit(publishSized(World, Env, frame, size, "caller"))
    /\ UNCHANGED <<now, endpointUp, ubCast, wire, linesWritten, deadPeers, accepts, dbUp, soilUp>>
    /\ UNCHANGED <<capacity_, snapOut, buffers_, fed, dispatched>>
    /\ UNCHANGED <<serverConns, snapshotProvider_, acceptPending, acceptLog>>
    /\ UNCHANGED <<pc, pipePending, iterStart, lastHistorical>>
    /\ UNCHANGED laterVars

FramingNext ==
    \E frame \in SampleFrames, size \in FrameSizes : PublishSized(frame, size)

FramingInit ==
    /\ RouterInit
    /\ ubCast = "wrap"
    /\ endpointUp

SpecFraming == FramingInit /\ [][FramingNext]_vars

(***************************************************************************)
(* The gateway under its callers: readRealtime and writeRegister are       *)
(* called at any moment while the clock advances.                          *)
(***************************************************************************)
\* what a call did, for the history of calls
CallRecord(method, before, after, ok) ==
    [method |-> method, at |-> now, up |-> endpointUp,
     modbus |-> before.modbus, lastAttempt |-> before.lastAttempt,
     trace |-> after.trace, ok |-> ok, handle |-> after.modbus,
     holdingBefore |-> before.holding, holdingAfter |-> after.holding]

\* a caller calls readRealtime
CallRead(limit) ==
    /\ Len(gwCalls) < limit
    /\ LET r == readRealtime(World, Env)
       IN  /\ Commit(r.w)
           /\ gwCalls' = Append(gwCalls, CallRecord("readRealtime", World, r.w, r.ok))
    /\ UNCHANGED <<capacity_, snapOut, envVars, buffers_, fed, dispatched>>
    /\ UNCHANGED <<serverConns, snapshotProvider_, acceptPending, acceptLog>>
    /\ UNCHANGED <<pc, pipePending, iterStart, lastHistorical>>
    /\ UNCHANGED <<supervisorVars, mutex_, gwPc, accesses, monitorVars, idVars, lifeVars, videoVars, loadVars, copyVars, feedVars>>

\* a caller calls writeRegister(address, value)
CallWrite(limit, address, value) ==
    /\ Len(gwCalls) < limit
    /\ LET w == writeRegister(World, Env, address, value)
       IN  /\ Commit(w)
           /\ gwCalls' = Append(gwCalls, CallRecord("writeRegister", World, w, TRUE))
    /\ UNCHANGED <<capacity_, snapOut, envVars, buffers_, fed, dispatched>>
    /\ UNCHANGED <<serverConns, snapshotProvider_, acceptPending, acceptLog>>
    /\ UNCHANGED <<pc, pipePending, iterStart, lastHistorical>>
    /\ UNCHANGED <<supervisorVars, mutex_, gwPc, accesses, monitorVars, idVars, lifeVars, videoVars, loadVars, copyVars, feedVars>>

\* one second passes, up to one second past a whole retry window
ThrottleTick ==
    /\ now < StartClock + RetrySeconds + 1
    /\ now' = now + 1
    /\ UNCHANGED <<endpointUp, ubCast, wire, linesWritten, deadPeers, accepts, dbUp, soilUp, published>>
    /\ UNCHANGED <<cacheVars, gatewayVars, routerVars, publisherVars, serviceVars>>
    /\ UNCHANGED laterVars

\* the Modbus endpoint is down from the start
ThrottleInit ==
    /\ Constructed
    /\ capacity_ = 1
    /\ endpointUp = FALSE
    /\ dbUp = TRUE
    /\ soilUp = TRUE
    /\ ubCast = "wrap"

ThrottleNext ==
    \/ CallRead(MaxCalls)
    \/ CallWrite(MaxCalls, 10, 5000)
    \/ ThrottleTick

SpecThrottle == ThrottleInit /\ [][ThrottleNext]_vars

(***************************************************************************)
(* The gateway on an endpoint that comes and goes: the same callers, while *)
(* the Modbus endpoint is lost and found again between calls.              *)
(***************************************************************************)
\* the endpoint is reachable when the program starts
HandleInit ==
    /\ Constructed
    /\ capacity_ = 1
    /\ endpointUp = TRUE
    /\ dbUp = TRUE
    /\ soilUp = TRUE
    /\ ubCast = "wrap"

HandleNext ==
    \/ CallRead(HandleCalls)
    \/ CallWrite(HandleCalls, 10, 5000)
    \/ EndpointFlips
    \/ ThrottleTick

SpecHandle == HandleInit /\ [][HandleNext]_vars

(***************************************************************************)
(* The gateway mutex: the pipeline thread calls readRealtime and the       *)
(* publisher's I/O threads call writeRegister, each call in steps: the     *)
(* call, the lock_guard, ensureConnection, the register operation, the     *)
(* release at the end of the scope.                                        *)
(***************************************************************************)
\* mutant of lock_guard: the constructor does not wait for the mutex
lock_guardNoWait(mtx) == TRUE

\* std::lock_guard<std::mutex> lk(mutex_): passes when the mutex is free
lock_guard(mtx) == mtx = "free"

\* the method a thread calls on the gateway
MethodOf(t) == IF t = "pipeline" THEN "readRealtime" ELSE "writeRegister"

\* what a thread did to the gateway, and who held mutex_ at that moment
Access(t, step) == [by |-> t, holder |-> mutex_, step |-> step]

CallsBegun == Len(SelectSeq(accesses, LAMBDA a : a.step = "call"))

\* a thread enters readRealtime or writeRegister(address, value)
GwCall(t, address, value) ==
    /\ gwPc[t].pc = "idle"
    /\ CallsBegun < MutexCalls
    /\ gwPc' = [gwPc EXCEPT ![t] = [pc |-> "waiting", method |-> MethodOf(t),
                                    address |-> address, value |-> value]]
    /\ accesses' = Append(accesses, [by |-> t, holder |-> t, step |-> "call"])
    /\ UNCHANGED <<cacheVars, envVars, gatewayVars, routerVars, publisherVars, serviceVars>>
    /\ UNCHANGED <<supervisorVars, gwCalls, mutex_, monitorVars, idVars, lifeVars, videoVars, loadVars, copyVars, feedVars>>

\* the lock_guard is constructed: the thread owns mutex_
GwLock(t) ==
    /\ gwPc[t].pc = "waiting"
    /\ lock_guard(mutex_)
    /\ mutex_' = t
    /\ gwPc' = [gwPc EXCEPT ![t].pc = "locked"]
    /\ UNCHANGED <<cacheVars, envVars, gatewayVars, routerVars, publisherVars, serviceVars>>
    /\ UNCHANGED <<supervisorVars, gwCalls, accesses, monitorVars, idVars, lifeVars, videoVars, loadVars, copyVars, feedVars>>

\* ensureConnection: reads modbus_ and lastAttempt_, may write both
GwEnsure(t) ==
    /\ gwPc[t].pc = "locked"
    /\ LET c == gwPc[t]
           w == IF c.method = "writeRegister"
                  THEN Called(World, c.method, c.address, c.value) ELSE World
           e == ensureConnection(w, Env)
       IN  /\ Commit(e.w)
           /\ gwPc' = [gwPc EXCEPT ![t].pc = IF e.ok THEN "connected" ELSE "return"]
    /\ accesses' = Append(accesses, Access(t, "ensureConnection"))
    /\ UNCHANGED <<capacity_, snapOut, envVars, buffers_, fed, dispatched>>
    /\ UNCHANGED <<serverConns, snapshotProvider_, acceptPending, acceptLog>>
    /\ UNCHANGED <<pc, pipePending, iterStart, lastHistorical>>
    /\ UNCHANGED <<supervisorVars, gwCalls, mutex_, monitorVars, idVars, lifeVars, videoVars, loadVars, copyVars, feedVars>>

\* the register read or write on the open handle
GwOperate(t) ==
    /\ gwPc[t].pc = "connected"
    /\ LET c == gwPc[t]
       IN  IF c.method = "writeRegister"
             THEN Commit(ModbusWrite(World, Env, c.address, c.value))
             ELSE Commit(readRealtime(World, Env).w)
    /\ gwPc' = [gwPc EXCEPT ![t].pc = "return"]
    /\ accesses' = Append(accesses, Access(t, "modbus"))
    /\ UNCHANGED <<capacity_, snapOut, envVars, buffers_, fed, dispatched>>
    /\ UNCHANGED <<serverConns, snapshotProvider_, acceptPending, acceptLog>>
    /\ UNCHANGED <<pc, pipePending, iterStart, lastHistorical>>
    /\ UNCHANGED <<supervisorVars, gwCalls, mutex_, monitorVars, idVars, lifeVars, videoVars, loadVars, copyVars, feedVars>>

\* the method returns: the lock_guard goes out of scope
GwUnlock(t) ==
    /\ gwPc[t].pc = "return"
    /\ mutex_' = "free"
    /\ gwPc' = [gwPc EXCEPT ![t] = Idle]
    /\ UNCHANGED <<cacheVars, envVars, gatewayVars, routerVars, publisherVars, serviceVars>>
    /\ UNCHANGED <<supervisorVars, gwCalls, accesses, monitorVars, idVars, lifeVars, videoVars, loadVars, copyVars, feedVars>>

MutexNext ==
    \/ \E t \in GatewayThreads : GwCall(t, 10, 5000)
    \/ \E t \in GatewayThreads : GwLock(t)
    \/ \E t \in GatewayThreads : GwEnsure(t)
    \/ \E t \in GatewayThreads : GwOperate(t)
    \/ \E t \in GatewayThreads : GwUnlock(t)
    \/ EndpointFlips

SpecMutex == HandleInit /\ [][MutexNext]_vars

(***************************************************************************)
(* The health registry under concurrent updates: the pipeline thread and   *)
(* the I/O threads call HealthMonitor::update, each call in steps: the     *)
(* call, the lock_guard, the assignment to states_, the release.           *)
(***************************************************************************)
\* the updates the program makes, as (component, healthy, detail)
UpdateInputs ==
    {<<"sensor_gateway", TRUE, "Modbus connected">>,
     <<"sensor_gateway", FALSE, "Connection error">>,
     <<"telemetry_publisher", FALSE, "Server stopped">>}

\* a thread enters update(component, healthy, detail)
UpdCall(t, in) ==
    /\ updPc[t].pc = "idle"
    /\ Len(applied) + Cardinality({u \in GatewayThreads : updPc[u].pc # "idle"}) < MaxUpdates
    /\ updPc' = [updPc EXCEPT ![t] = [pc |-> "waiting", component |-> in[1],
                                      healthy |-> in[2], detail |-> in[3]]]
    /\ UNCHANGED <<cacheVars, envVars, gatewayVars, routerVars, publisherVars, serviceVars>>
    /\ UNCHANGED <<supervisorVars, callerVars, idVars, lifeVars, videoVars, loadVars, copyVars, feedVars>>
    /\ UNCHANGED <<healthMutex, applied, running_, writerPc, writerFinal,
                   writerSnapshot, healthFile, flushLog, stopIndex>>

\* std::lock_guard<std::mutex> lk(mutex_) in update
UpdLock(t) ==
    /\ updPc[t].pc = "waiting"
    /\ lock_guard(healthMutex)
    /\ healthMutex' = t
    /\ updPc' = [updPc EXCEPT ![t].pc = "locked"]
    /\ UNCHANGED <<cacheVars, envVars, gatewayVars, routerVars, publisherVars, serviceVars>>
    /\ UNCHANGED <<supervisorVars, callerVars, idVars, lifeVars, videoVars, loadVars, copyVars, feedVars>>
    /\ UNCHANGED <<applied, running_, writerPc, writerFinal,
                   writerSnapshot, healthFile, flushLog, stopIndex>>

\* states_[component] = HealthState{healthy, detail, system_clock::now()}
UpdApply(t) ==
    /\ updPc[t].pc = "locked"
    /\ LET u == updPc[t]
       IN  /\ states_' = update(states_, u.component, u.healthy, u.detail, now)
           /\ applied' = Append(applied, [by |-> t, holder |-> healthMutex,
                                          component |-> u.component,
                                          healthy |-> u.healthy,
                                          detail |-> u.detail, at |-> now])
    /\ updPc' = [updPc EXCEPT ![t].pc = "return"]
    /\ UNCHANGED <<modbus_, lastAttempt_, holding, made>>
    /\ UNCHANGED <<cacheVars, envVars, routerVars, publisherVars, serviceVars>>
    /\ UNCHANGED <<supervisorVars, callerVars, idVars, lifeVars, videoVars, loadVars, copyVars, feedVars>>
    /\ UNCHANGED <<healthMutex, running_, writerPc, writerFinal,
                   writerSnapshot, healthFile, flushLog, stopIndex>>

\* update returns: the lock_guard goes out of scope
UpdUnlock(t) ==
    /\ updPc[t].pc = "return"
    /\ healthMutex' = "free"
    /\ updPc' = [updPc EXCEPT ![t] = NoUpdate]
    /\ UNCHANGED <<cacheVars, envVars, gatewayVars, routerVars, publisherVars, serviceVars>>
    /\ UNCHANGED <<supervisorVars, callerVars, idVars, lifeVars, videoVars, loadVars, copyVars, feedVars>>
    /\ UNCHANGED <<applied, running_, writerPc, writerFinal,
                   writerSnapshot, healthFile, flushLog, stopIndex>>

RegistryNext ==
    \/ \E t \in GatewayThreads, in \in UpdateInputs : UpdCall(t, in)
    \/ \E t \in GatewayThreads : UpdLock(t)
    \/ \E t \in GatewayThreads : UpdApply(t)
    \/ \E t \in GatewayThreads : UpdUnlock(t)
    \/ Tick

SpecRegistry == HandleInit /\ [][RegistryNext]_vars

(***************************************************************************)
(* The health writer and the shutdown: writerLoop and flushToDisk step by  *)
(* step on the writer thread, updates from the pipeline thread, and main   *)
(* leaving its poll loop and stopping the publisher and the monitor.       *)
(***************************************************************************)
\* the keys of std::map<std::string, HealthState> in iteration order
MapOrder == <<"command_router", "sensor_gateway", "telemetry_publisher",
              "telemetry_service", "video_manager">>

\* json.dump(4) of the object flushToDisk builds from its copy: one member
\* per component in key order; a json no member was added to dumps as null
Dump(copy) ==
    IF DOMAIN copy = {} THEN <<"null">>
    ELSE LET keys == SelectSeq(MapOrder, LAMBDA c : c \in DOMAIN copy)
         IN  [i \in 1..Len(keys) |->
                 [component |-> keys[i], healthy |-> copy[keys[i]].healthy,
                  detail |-> copy[keys[i]].detail,
                  updatedAt |-> copy[keys[i]].updatedAt]]

\* mutant of writerLoop: the thread ends when the loop ends
writerLoopNoLastFlush(running) ==
    IF running THEN [pc |-> "copy", final |-> FALSE]
    ELSE [pc |-> "done", final |-> TRUE]

\* HealthMonitor::writerLoop at the loop condition: flush and sleep while
\* running_, one more flushToDisk after the loop
writerLoop(running) ==
    IF running THEN [pc |-> "copy", final |-> FALSE]
    ELSE [pc |-> "copy", final |-> TRUE]

\* the updates the pipeline thread makes through the gateway
WriterInputs ==
    {<<"sensor_gateway", TRUE, "Modbus connected">>,
     <<"sensor_gateway", FALSE, "Connection error">>}

\* one whole HealthMonitor::update call by thread t
Update(t, in) ==
    /\ lock_guard(healthMutex)
    /\ states_' = update(states_, in[1], in[2], in[3], now)
    /\ applied' = Append(applied, [by |-> t, holder |-> t, component |-> in[1],
                                   healthy |-> in[2], detail |-> in[3], at |-> now])
    /\ UNCHANGED <<modbus_, lastAttempt_, holding, made>>
    /\ UNCHANGED <<cacheVars, envVars, routerVars, publisherVars, serviceVars>>
    /\ UNCHANGED <<callerVars, idVars, videoVars, loadVars, copyVars, feedVars>>
    /\ UNCHANGED <<shouldRun, exitCode, svcRunning_, videoRunning_, relayPc>>
    /\ UNCHANGED <<configFile, lastWriteTime_, config_, pollFlag, pollCurrent, pollLog, edits>>
    /\ UNCHANGED <<healthMutex, updPc, running_, writerPc, writerFinal,
                   writerSnapshot, healthFile, flushLog, stopIndex>>

\* the pipeline thread reports on the gateway while the program runs
PipelineUpdate(in) ==
    /\ mainPc = "exchange"
    /\ Len(applied) < MaxUpdates
    /\ Update("pipeline", in)
    /\ UNCHANGED <<mainPc, listening, lifeLog>>

\* the writer thread and main leave everything but the monitor alone
WriterFrame ==
    /\ UNCHANGED <<cacheVars, envVars, gatewayVars, routerVars, publisherVars, serviceVars>>
    /\ UNCHANGED <<callerVars, idVars, lifeVars, videoVars, loadVars, copyVars, feedVars>>
    /\ UNCHANGED <<configFile, lastWriteTime_, config_, pollFlag, pollCurrent, pollLog, edits>>
    /\ UNCHANGED <<healthMutex, updPc, applied>>

\* while (running_)
WriterCheck ==
    /\ writerPc = "check"
    /\ running_ => Len(flushLog) < MaxFlushes
    /\ writerPc' = writerLoop(running_).pc
    /\ writerFinal' = writerLoop(running_).final
    /\ WriterFrame
    /\ UNCHANGED <<mainPc, running_, writerSnapshot, healthFile, flushLog, stopIndex>>

\* flushToDisk: snapshot = states_ under the lock
FlushCopy ==
    /\ writerPc = "copy"
    /\ lock_guard(healthMutex)
    /\ writerSnapshot' = states_
    /\ flushLog' = Append(flushLog, [registry |-> states_, upto |-> Len(applied),
                                     final |-> writerFinal, written |-> FALSE])
    /\ writerPc' = "open"
    /\ WriterFrame
    /\ UNCHANGED <<mainPc, running_, writerFinal, healthFile, stopIndex>>

\* std::ofstream out(filePath_, out | trunc): the file exists and is empty
FlushOpen ==
    /\ writerPc = "open"
    /\ healthFile' = [exists |-> TRUE, text |-> <<>>]
    /\ writerPc' = "write"
    /\ WriterFrame
    /\ UNCHANGED <<mainPc, running_, writerFinal, writerSnapshot, flushLog, stopIndex>>

\* out << json.dump(4), and the stream is closed at the end of the scope
FlushWrite ==
    /\ writerPc = "write"
    /\ healthFile' = [exists |-> TRUE, text |-> Dump(writerSnapshot)]
    /\ flushLog' = [flushLog EXCEPT ![Len(flushLog)].written = TRUE]
    /\ writerPc' = IF writerFinal THEN "done" ELSE "sleep"
    /\ WriterFrame
    /\ UNCHANGED <<mainPc, running_, writerFinal, writerSnapshot, stopIndex>>

\* std::this_thread::sleep_for(interval_) is over
WriterWake ==
    /\ writerPc = "sleep"
    /\ writerPc' = "check"
    /\ WriterFrame
    /\ UNCHANGED <<mainPc, running_, writerFinal, writerSnapshot, healthFile,
                   flushLog, stopIndex>>

\* a signal ends main's poll loop; videoManager.stop() and
\* telemetryService.stop() have returned (the pipeline thread is joined)
Shutdown ==
    /\ mainPc = "exchange"
    /\ mainPc' = "publisher.stop"
    /\ WriterFrame
    /\ UNCHANGED <<running_, writerPc, writerFinal, writerSnapshot, healthFile,
                   flushLog, stopIndex>>

\* TelemetryPublisher::stop: server_->Stop(), then the health update
PublisherStop ==
    /\ mainPc = "publisher.stop"
    /\ listening' = listening \ {"publisher"}
    /\ Update("main", <<"telemetry_publisher", FALSE, "Server stopped">>)
    /\ lifeLog' = Append(lifeLog, LifeEvent("stop", "publisher"))
    /\ mainPc' = "healthMonitor.stop"

\* HealthMonitor::stop: running_.exchange(false), then join the writer
StopBegin ==
    /\ mainPc = "healthMonitor.stop"
    /\ running_' = FALSE
    /\ stopIndex' = Len(applied)
    /\ mainPc' = IF running_ THEN "join" ELSE "stopped"
    /\ WriterFrame
    /\ UNCHANGED <<writerPc, writerFinal, writerSnapshot, healthFile, flushLog>>

\* worker_.join() returns when the writer thread has ended
StopJoin ==
    /\ mainPc = "join"
    /\ writerPc = "done"
    /\ mainPc' = "stopped"
    /\ WriterFrame
    /\ UNCHANGED <<running_, writerPc, writerFinal, writerSnapshot, healthFile,
                   flushLog, stopIndex>>

WriterNext ==
    \/ \E in \in WriterInputs : PipelineUpdate(in)
    \/ WriterCheck
    \/ FlushCopy
    \/ FlushOpen
    \/ FlushWrite
    \/ WriterWake
    \/ Shutdown
    \/ PublisherStop
    \/ StopBegin
    \/ StopJoin
    \/ Tick

SpecWriter == HandleInit /\ [][WriterNext]_vars

(***************************************************************************)
(* The correlation id counter: the pipeline thread builds frames while the *)
(* publisher's I/O threads run the snapshot provider for joining clients;  *)
(* every nextCorrelationId call is one atomic increment.                   *)
(***************************************************************************)
\* what one nextCorrelationId call returned, and to whom
Issue(t, before, id) == [by |-> t, n |-> before + 1, id |-> id]

IdFrame ==
    /\ UNCHANGED <<capacity_, cache_, stored, snapOut, envVars, gatewayVars, routerVars>>
    /\ UNCHANGED <<publisherVars, pc, pipePending, iterStart, lastHistorical>>
    /\ UNCHANGED <<supervisorVars, callerVars, monitorVars, lifeVars, videoVars, loadVars, copyVars, feedVars>>

\* the pipeline thread takes an id for a realtime frame (processRealtime)
\* or builds a historical frame (buildFrame)
PipelineFrame ==
    /\ Len(issued) < MaxIssued
    /\ \/ LET n == nextCorrelationId(World)
          IN  /\ correlationId_' = n.w.corr
              /\ issued' = Append(issued, Issue("pipeline", correlationId_, n.id))
       \/ LET f == buildFrame(World, "HistoricalSoil", <<>>)
          IN  /\ correlationId_' = f.w.corr
              /\ issued' = Append(issued, Issue("pipeline", correlationId_,
                                                f.frame.correlationId))
    /\ UNCHANGED building
    /\ IdFrame

\* OnAccept on an I/O thread calls the snapshot provider: three
\* buildSnapshot calls lie ahead
ProviderBegins(t) ==
    /\ building[t] = <<>>
    /\ Len(issued) < MaxIssued
    /\ building' = [building EXCEPT ![t] =
                       <<"Realtime", "HistoricalEnvironment", "HistoricalSoil">>]
    /\ UNCHANGED <<issued, correlationId_>>
    /\ IdFrame

\* the provider's next buildSnapshot(channel)
ProviderBuilds(t) ==
    /\ building[t] # <<>>
    /\ Len(issued) < MaxIssued
    /\ LET f == buildSnapshot(World, Head(building[t]))
       IN  /\ correlationId_' = f.w.corr
           /\ issued' = Append(issued, Issue(t, correlationId_, f.frame.correlationId))
    /\ building' = [building EXCEPT ![t] = Tail(@)]
    /\ IdFrame

CorrelationNext ==
    \/ PipelineFrame
    \/ \E t \in IoThreads : ProviderBegins(t)
    \/ \E t \in IoThreads : ProviderBuilds(t)

SpecCorrelation == HandleInit /\ [][CorrelationNext]_vars

(***************************************************************************)
(* The router's buffers over the life of connections: clients connect,     *)
(* write, are delivered in chunks, and close.                              *)
(***************************************************************************)
\* the line the clients write
BufferTexts == {NopeText}

BuffersNext ==
    \/ \E c \in ConnIds : Accept(c)
    \/ \E c \in ConnIds, text \in BufferTexts : ClientWrites(c, text)
    \/ \E c \in ConnIds : \E k \in ChunkCuts(wire[c]) : Receive(c, k)
    \/ \E c \in ConnIds : Close(c)

SpecBuffers == RouterInit /\ [][BuffersNext]_vars

(***************************************************************************)
(* The supervisor: main's poll loop and the configuration loader, with     *)
(* clients sending config_reload and the file being changed from outside.  *)
(***************************************************************************)
\* std::filesystem::last_write_time(path_, ec): an error when the file does
\* not exist
last_write_time(file) ==
    [ec |-> ~file.exists, time |-> IF file.exists THEN file.mtime ELSE 0]

\* ConfigurationManager::reloadIfChanged up to its call of loadFromDisk:
\* probe the modification time; an error or an unchanged time returns false
reloadIfChangedBegin(file, lastWrite) ==
    LET current == last_write_time(file)
    IN  IF current.ec THEN [reload |-> FALSE, current |-> 0]
        ELSE IF current.time # lastWrite
          THEN [reload |-> TRUE, current |-> current.time]
          ELSE [reload |-> FALSE, current |-> current.time]

\* ConfigurationManager::loadFromDisk: a missing file is created from the
\* default template (at modification time stamp) and the defaults are used;
\* otherwise the file is parsed and its modification time recorded
loadFromDisk(file, lastWrite, stamp) ==
    IF ~file.exists
      THEN [file |-> [exists |-> TRUE, mtime |-> stamp], config |-> DefaultVersion,
            lastWrite |-> lastWrite]
      ELSE [file |-> file, config |-> file.mtime, lastWrite |-> file.mtime]

\* mutant of main's poll iteration: the file is probed only on request
pollProbeOnRequestOnly(flag, file, lastWrite) ==
    IF flag
      THEN [probes |-> 1, r |-> reloadIfChangedBegin(file, lastWrite)]
      ELSE [probes |-> 0, r |-> [reload |-> FALSE, current |-> 0]]

\* main's poll iteration past the exchange: reloadIfChanged is called in
\* the branch taken when the flag was set and in the other branch
pollProbe(flag, file, lastWrite) ==
    IF flag
      THEN [probes |-> 1, r |-> reloadIfChangedBegin(file, lastWrite)]
      ELSE [probes |-> 1, r |-> reloadIfChangedBegin(file, lastWrite)]

\* the modification times a file can have
FileTimes == 1..(MaxEdits + 1)

\* the number of config_reload commands the router has processed
ReloadsProcessed ==
    LET n(c) == Len(SelectSeq(dispatched[c],
                     LAMBDA e : \E i \in 1..Len(e.trace) : e.trace[i].op = "reload"))
    IN  n(1) + n(2)

\* the file was missing when ConfigurationManager was constructed: the
\* default template was written and no modification time recorded
SupervisorConstructedFromDefaults ==
    /\ configFile = [exists |-> TRUE, mtime |-> 1]
    /\ lastWriteTime_ = 0
    /\ config_ = DefaultVersion
    /\ mainPc = "exchange"
    /\ pollFlag = FALSE
    /\ pollCurrent = 0
    /\ pollLog = <<>>
    /\ edits = 0

ReloadInit ==
    /\ RouterBase
    /\ ubCast = "wrap"
    /\ endpointUp
    /\ SupervisorConstructed \/ SupervisorConstructedFromDefaults
    /\ CallersConstructed
    /\ MonitorConstructed
    /\ IdsConstructed
    /\ LifeConstructed
    /\ VideoConstructed
    /\ LoadConstructed
    /\ CopiesConstructed

\* main: reloadRequested.exchange(false)
PollExchange ==
    /\ mainPc = "exchange"
    /\ shouldRun
    /\ Len(pollLog) < MaxPolls
    /\ pollFlag' = reloadRequested
    /\ reloadRequested' = FALSE
    /\ pollLog' = Append(pollLog, [flag |-> reloadRequested,
                                   requests |-> ReloadsProcessed, probes |-> 0,
                                   reread |-> FALSE, file |-> configFile,
                                   recorded |-> lastWriteTime_, done |-> FALSE])
    /\ mainPc' = "probe"
    /\ UNCHANGED <<configFile, lastWriteTime_, config_, pollCurrent, edits>>
    /\ UNCHANGED <<cacheVars, envVars, gatewayVars, buffers_, fed, dispatched,
                   publisherVars, serviceVars>>
    /\ UNCHANGED <<callerVars, monitorVars, idVars, lifeVars, videoVars, loadVars, copyVars, feedVars>>

\* main: the call of reloadIfChanged, up to loadFromDisk
PollProbe ==
    /\ mainPc = "probe"
    /\ LET p == pollProbe(pollFlag, configFile, lastWriteTime_)
           l == [pollLog EXCEPT ![Len(pollLog)] =
                    [@ EXCEPT !.probes = p.probes, !.file = configFile,
                              !.recorded = lastWriteTime_,
                              !.done = ~p.r.reload]]
       IN  /\ pollLog' = l
           /\ pollCurrent' = p.r.current
           /\ mainPc' = IF p.r.reload THEN "load" ELSE "sleep"
    /\ UNCHANGED <<configFile, lastWriteTime_, config_, pollFlag, edits>>
    /\ UNCHANGED <<cacheVars, envVars, gatewayVars, routerVars, publisherVars,
                   serviceVars>>
    /\ UNCHANGED <<callerVars, monitorVars, idVars, lifeVars, videoVars, loadVars, copyVars, feedVars>>

\* main: loadFromDisk inside reloadIfChanged, then lastWriteTime_ = current
PollLoad ==
    /\ mainPc = "load"
    /\ \E stamp \in FileTimes :
          LET l == loadFromDisk(configFile, lastWriteTime_, stamp)
          IN  /\ configFile' = l.file
              /\ config_' = l.config
    /\ lastWriteTime_' = pollCurrent
    /\ pollLog' = [pollLog EXCEPT ![Len(pollLog)] =
                      [@ EXCEPT !.reread = TRUE, !.done = TRUE]]
    /\ mainPc' = "sleep"
    /\ UNCHANGED <<pollFlag, pollCurrent, edits>>
    /\ UNCHANGED <<cacheVars, envVars, gatewayVars, routerVars, publisherVars,
                   serviceVars>>
    /\ UNCHANGED <<callerVars, monitorVars, idVars, lifeVars, videoVars, loadVars, copyVars, feedVars>>

\* main: sleep_for(5 s), back to the head of the loop
PollSleep ==
    /\ mainPc = "sleep"
    /\ mainPc' = "exchange"
    /\ UNCHANGED <<configFile, lastWriteTime_, config_, pollFlag, pollCurrent,
                   pollLog, edits>>
    /\ UNCHANGED <<cacheVars, envVars, gatewayVars, routerVars, publisherVars,
                   serviceVars>>
    /\ UNCHANGED <<callerVars, monitorVars, idVars, lifeVars, videoVars, loadVars, copyVars, feedVars>>

\* the file is written from outside and gets another modification time
EditFile(t) ==
    /\ edits < MaxEdits
    /\ edits' = edits + 1
    /\ ~configFile.exists \/ t # configFile.mtime
    /\ configFile' = [exists |-> TRUE, mtime |-> t]
    /\ UNCHANGED <<lastWriteTime_, config_, mainPc, pollFlag, pollCurrent, pollLog>>
    /\ UNCHANGED <<cacheVars, envVars, gatewayVars, routerVars, publisherVars,
                   serviceVars>>
    /\ UNCHANGED <<callerVars, monitorVars, idVars, lifeVars, videoVars, loadVars, copyVars, feedVars>>

\* the file is removed from outside
DeleteFile ==
    /\ edits < MaxEdits
    /\ edits' = edits + 1
    /\ configFile.exists
    /\ configFile' = [configFile EXCEPT !.exists = FALSE]
    /\ UNCHANGED <<lastWriteTime_, config_, mainPc, pollFlag, pollCurrent, pollLog>>
    /\ UNCHANGED <<cacheVars, envVars, gatewayVars, routerVars, publisherVars,
                   serviceVars>>
    /\ UNCHANGED <<callerVars, monitorVars, idVars, lifeVars, videoVars, loadVars, copyVars, feedVars>>

\* the texts of the supervisor specification
ReloadTexts == {ReloadText}

ReloadNext ==
    \/ \E c \in RouterConns, text \in ReloadTexts : ReceiveLine(c, text)
    \/ PollExchange
    \/ PollProbe
    \/ PollLoad
    \/ PollSleep
    \/ \E t \in FileTimes : EditFile(t)
    \/ DeleteFile

SpecReload == ReloadInit /\ [][ReloadNext]_vars

(***************************************************************************)
(* The configuration over the life of the process: main's poll loop        *)
(* re-reads a changed file while the pipeline worker runs on the           *)
(* configuration it was constructed with and clients ask for diagnostics.  *)
(***************************************************************************)
\* the program booted from version 1 of the file, a client connected.  The
\* Modbus endpoint does not answer, so that an iteration of the worker
\* publishes no realtime frame.
ConfigInit ==
    /\ RouterInit
    /\ ubCast = "wrap"
    /\ ~endpointUp

ConfigNext ==
    \/ \E c \in RouterConns : ReceiveLine(c, ReloadText)
    \/ PollExchange
    \/ PollProbe
    \/ PollLoad
    \/ PollSleep
    \/ \E t \in FileTimes : EditFile(t)
    \/ StartTelemetryService
    \/ PipelineRealtime
    \/ PipelineHistorical
    \/ PipelineHistoricalPublish
    \/ PipelineSleep

SpecConfig == ConfigInit /\ [][ConfigNext]_vars

\* the same with clients that also ask for diagnostics, and with the file
\* removed from outside
DiagnosticsText == Obj(<<StrF("type", "diagnostics")>>)

DiagnosticsNext ==
    \/ ConfigNext
    \/ \E c \in RouterConns : ReceiveLine(c, DiagnosticsText)
    \/ DeleteFile

SpecDiagnostics == ConfigInit /\ [][DiagnosticsNext]_vars

(***************************************************************************)
(* feed on the publisher's I/O threads: the transport hands the bytes of   *)
(* different connections to different threads at the same time (the events *)
(* of one connection are delivered one after the other), and feed takes    *)
(* its buffer from buffers_ with operator[] under no lock.  An access of    *)
(* buffers_ that overlaps an insertion by another thread is a data race:   *)
(* the inserted element may or may not be the one later lookups find.      *)
(***************************************************************************)
\* the threads that are changing buffers_: inside an inserting operator[]
Inserting == {t \in IoThreads : ioPc[t].pc = "inserting"}

\* the I/O threads at work for connection c
HandlersOf(c) == {t \in IoThreads : ioPc[t].pc # "idle" /\ ioPc[t].id = c}

\* what a step of a thread leaves alone when it calls nothing
IoFrame ==
    /\ UNCHANGED <<cacheVars, gatewayVars, publisherVars, serviceVars>>
    /\ UNCHANGED <<now, endpointUp, ubCast, linesWritten, deadPeers, accepts, dbUp,
                   soilUp, published, reloadRequested>>
    /\ UNCHANGED <<supervisorVars, callerVars, monitorVars, idVars, lifeVars,
                   videoVars, loadVars, copyVars>>

\* TelemetryPublisher::OnReceive on thread t for the first k pending bytes
\* of connection c, up to the call of feed
OnReceiveBegins(t, c, k) ==
    /\ ioPc[t].pc = "idle"
    /\ c \in serverConns
    /\ HandlersOf(c) = {}
    /\ k \in 1..Len(wire[c])
    /\ ioPc' = [ioPc EXCEPT ![t] = [IdleIo EXCEPT !.pc = "index", !.id = c,
                                                  !.chunk = SubSeq(wire[c], 1, k)]]
    /\ wire' = [wire EXCEPT ![c] = SubSeq(@, k + 1, Len(@))]
    /\ fed' = [fed EXCEPT ![c] = Append(@, SubSeq(wire[c], 1, k))]
    /\ UNCHANGED <<buffers_, dispatched, mapRaces>>
    /\ IoFrame

\* feed: auto& buffer = buffers_[connectionId].  The key is found, or an
\* insertion begins; a lookup made while another thread inserts may miss
\* the key it looks for and insert as well
FeedIndex(t) ==
    /\ ioPc[t].pc = "index"
    /\ LET c     == ioPc[t].id
           raced == Inserting # {}
       IN  /\ \E found \in IF raced THEN BOOLEAN ELSE {c \in DOMAIN buffers_} :
                 ioPc' = [u \in IoThreads |->
                            IF u = t
                              THEN [ioPc[t] EXCEPT
                                      !.pc = IF found /\ c \in DOMAIN buffers_
                                               THEN "run" ELSE "inserting",
                                      !.node = IF found /\ c \in DOMAIN buffers_
                                                 THEN "map" ELSE "none",
                                      !.raced = raced]
                            ELSE IF u \in Inserting /\ ~(found /\ c \in DOMAIN buffers_)
                              THEN [ioPc[u] EXCEPT !.raced = TRUE]
                              ELSE ioPc[u]]
           /\ mapRaces' = IF raced
                            THEN mapRaces \cup {[by |-> t, id |-> c,
                                                 during |-> Inserting]}
                            ELSE mapRaces
    /\ UNCHANGED <<wire, fed, buffers_, dispatched>>
    /\ IoFrame

\* the insertion of operator[] ends.  After a race the new element is
\* linked into the map or lost to it; the thread holds a reference to it
\* either way
FeedInserted(t) ==
    /\ ioPc[t].pc = "inserting"
    /\ \E linked \in IF ioPc[t].raced THEN BOOLEAN ELSE {TRUE} :
          /\ buffers_' = IF linked
                           THEN [d \in DOMAIN buffers_ \cup {ioPc[t].id} |->
                                    IF d = ioPc[t].id THEN <<>> ELSE buffers_[d]]
                           ELSE buffers_
          /\ ioPc' = [ioPc EXCEPT ![t].pc = "run",
                                  ![t].node = IF linked THEN "map" ELSE "lost"]
    /\ UNCHANGED <<wire, fed, dispatched, mapRaces>>
    /\ IoFrame

\* feed: buffer += chunk and the loop over the complete lines, on the
\* element the thread's reference names
FeedRun(t) ==
    /\ ioPc[t].pc = "run"
    /\ LET c      == ioPc[t].id
           inMap  == ioPc[t].node = "map" /\ c \in DOMAIN buffers_
           buffer == IF inMap THEN buffers_[c] ELSE <<>>
           r      == onReceive(World, Env, c, buffer, ioPc[t].chunk)
       IN  /\ Commit(r.w)
           /\ buffers_' = IF inMap THEN [buffers_ EXCEPT ![c] = r.buffer] ELSE buffers_
           /\ dispatched' = [dispatched EXCEPT ![c] = @ \o r.out]
    /\ ioPc' = [ioPc EXCEPT ![t] = IdleIo]
    /\ UNCHANGED <<capacity_, snapOut, envVars, fed, mapRaces>>
    /\ UNCHANGED <<serverConns, snapshotProvider_, acceptPending, acceptLog>>
    /\ UNCHANGED <<pc, pipePending, iterStart, lastHistorical>>
    /\ UNCHANGED <<supervisorVars, callerVars, monitorVars, idVars, lifeVars,
                   videoVars, loadVars, copyVars>>

\* the line the clients of this specification write
FeedTexts == {NopeText}

\* the sizes in which the transport delivers pending bytes here: everything,
\* or up to just before a newline
FeedCuts(bytes) ==
    {Len(bytes)} \cup {p \in 1..(Len(bytes) - 1) : bytes[p + 1] = NL}

\* one client is connected, the Modbus endpoint answers
FeedInit ==
    /\ RouterInit
    /\ ubCast = "wrap"
    /\ endpointUp

FeedNext ==
    \/ \E c \in ConnIds : Accept(c)
    \/ \E c \in ConnIds, text \in FeedTexts : ClientWrites(c, text)
    \/ \E t \in IoThreads, c \in ConnIds : \E k \in FeedCuts(wire[c]) :
          OnReceiveBegins(t, c, k)
    \/ \E t \in IoThreads : FeedIndex(t)
    \/ \E t \in IoThreads : FeedInserted(t)
    \/ \E t \in IoThreads : FeedRun(t)

SpecFeed == FeedInit /\ [][FeedNext]_vars

(***************************************************************************)
(* Two threshold commands at the same time: each I/O thread is inside      *)
(* handleThreshold for its own connection, and every writeRegister call    *)
(* takes and releases the gateway mutex on its own.                        *)
(***************************************************************************)
\* the writeRegister calls handleThreshold makes for a command, in order
thresholdWrites(msg, ub) ==
    <<[address |-> 10, value |-> ScaledToU16(ValueNum(msg, "soil", 0).v, ub)],
      [address |-> 11, value |-> ScaledToU16(ValueNum(msg, "rain", 0).v, ub)],
      [address |-> 12, value |-> ScaledToU16(ValueNum(msg, "temp", 0).v, ub)],
      [address |-> 13, value |-> ScaledToU16(ValueNum(msg, "light", 0).v, ub)]>>

\* parseLine on thread t has parsed a threshold command of connection c
\* and enters handleThreshold: the four values are read
ThresholdBegins(t, c, text) ==
    /\ ioPc[t].pc = "idle"
    /\ c \in serverConns
    /\ HandlersOf(c) = {}
    /\ ioPc' = [ioPc EXCEPT ![t] =
                   [IdleIo EXCEPT !.pc = "threshold", !.id = c, !.chunk = text,
                                  !.writes = thresholdWrites(JsonParse(text), ubCast)]]
    /\ UNCHANGED <<wire, fed, buffers_, dispatched, mapRaces>>
    /\ IoFrame

\* handleThreshold: the next sensorGateway_.writeRegister(address, value)
ThresholdWrites(t) ==
    /\ ioPc[t].pc = "threshold"
    /\ ioPc[t].writes # <<>>
    /\ Commit(writeRegister(World, Env, Head(ioPc[t].writes).address,
                            Head(ioPc[t].writes).value))
    /\ ioPc' = [ioPc EXCEPT ![t].writes = Tail(@)]
    /\ UNCHANGED <<capacity_, snapOut, envVars, buffers_, fed, dispatched, mapRaces>>
    /\ UNCHANGED <<serverConns, snapshotProvider_, acceptPending, acceptLog>>
    /\ UNCHANGED <<pc, pipePending, iterStart, lastHistorical>>
    /\ UNCHANGED <<supervisorVars, callerVars, monitorVars, idVars, lifeVars,
                   videoVars, loadVars, copyVars>>

\* handleThreshold: monitor_.update("command_router", true, ...) and the
\* return to feed; the thread keeps what it has processed
ThresholdEnds(t) ==
    /\ ioPc[t].pc = "threshold"
    /\ ioPc[t].writes = <<>>
    /\ Commit(Health(World, Env, "command_router", TRUE, "threshold updated"))
    /\ ioPc' = [ioPc EXCEPT ![t].pc = "returned"]
    /\ UNCHANGED <<capacity_, snapOut, envVars, buffers_, fed, dispatched, mapRaces>>
    /\ UNCHANGED <<serverConns, snapshotProvider_, acceptPending, acceptLog>>
    /\ UNCHANGED <<pc, pipePending, iterStart, lastHistorical>>
    /\ UNCHANGED <<supervisorVars, callerVars, monitorVars, idVars, lifeVars,
                   videoVars, loadVars, copyVars>>

\* the two commands
ThresholdTexts == {ThresholdText, FractionText}

ThresholdNext ==
    \/ \E c \in ConnIds : Accept(c)
    \/ \E t \in IoThreads, c \in ConnIds, text \in ThresholdTexts :
          ThresholdBegins(t, c, text)
    \/ \E t \in IoThreads : ThresholdWrites(t)
    \/ \E t \in IoThreads : ThresholdEnds(t)

SpecThreshold == FeedInit /\ [][ThresholdNext]_vars

(***************************************************************************)
(* The repository's loads alone: one load of either relation, for every    *)
(* content of the relation and every limit.                                *)
(***************************************************************************)
MaxLimit == 3

\* the time column of a relation in ascending order, NULL first
LoadTimes == <<NullTime, "T1", "T2", "T3">>

\* the rows of LoadTimes at the places in keep, in the same order
RECURSIVE Kept(_, _)
Kept(times, keep) ==
    IF times = <<>> THEN <<>>
    ELSE (IF Len(times) \in keep THEN Kept(SubSeq(times, 1, Len(times) - 1), keep)
                                        \o <<times[Len(times)]>>
          ELSE Kept(SubSeq(times, 1, Len(times) - 1), keep))

LoadTables == {Kept(LoadTimes, keep) : keep \in SUBSET (1..Len(LoadTimes))}

LoadInit ==
    /\ states_ = ListeningStates
    /\ PlanesConstructed
    /\ SupervisorConstructed
    /\ CallersConstructed
    /\ MonitorConstructed
    /\ IdsConstructed
    /\ LifeConstructed
    /\ VideoConstructed
    /\ capacity_ = 1
    /\ endpointUp = TRUE
    /\ dbUp \in BOOLEAN
    /\ soilUp = TRUE
    /\ ubCast = "wrap"
    /\ loadTable \in LoadTables
    /\ loadLimit \in 1..MaxLimit
    /\ loadOut = NoLoad
    /\ CopiesConstructed

\* a call of loadEnvironmental(limit) or loadSoilAndAir(limit)
Load(relation) ==
    /\ loadOut = NoLoad
    /\ LET env == [Env EXCEPT !.envRows = loadTable, !.soilRows = loadTable]
           r   == IF relation = "environmental_conditions"
                    THEN loadEnvironmental(World, env, loadLimit)
                    ELSE loadSoilAndAir(World, env, loadLimit)
       IN  /\ made' = r.w.made
           /\ loadOut' = [relation |-> relation,
                          result |-> IF dbUp THEN SelectDesc(loadTable, loadLimit) ELSE <<>>,
                          readings |-> r.readings]
    /\ UNCHANGED <<cacheVars, envVars, routerVars, publisherVars, serviceVars>>
    /\ UNCHANGED <<modbus_, lastAttempt_, holding, states_>>
    /\ UNCHANGED <<supervisorVars, callerVars, monitorVars, idVars, lifeVars, videoVars>>
    /\ UNCHANGED <<loadTable, loadLimit>>
    /\ UNCHANGED <<copyVars, feedVars>>

LoadNext == \E relation \in {"environmental_conditions", "soil_and_air_quality"} : Load(relation)

SpecLoad == LoadInit /\ [][LoadNext]_vars

(***************************************************************************)
(* The life of the process: main starts the components one after another,  *)
(* polls until a signal clears shouldRun, and stops the components; the    *)
(* pipeline worker and the relay thread run their loops meanwhile.         *)
(***************************************************************************)
\* what main's start-up and shutdown steps leave alone
MainFrame ==
    /\ UNCHANGED <<cacheVars, envVars, routerVars, publisherVars>>
    /\ UNCHANGED <<modbus_, lastAttempt_, holding, made>>
    /\ UNCHANGED <<callerVars, monitorVars, idVars, videoVars, loadVars, copyVars, feedVars>>
    /\ UNCHANGED <<configFile, lastWriteTime_, config_, pollFlag, pollCurrent, pollLog, edits>>

\* main before anything is started: the health monitor runs, no server
\* listens, the registry is empty
BootInit ==
    /\ states_ = <<>>
    /\ PlanesConstructed
    /\ capacity_ = 1
    /\ endpointUp = TRUE
    /\ dbUp \in BOOLEAN
    /\ soilUp = TRUE
    /\ ubCast = "wrap"
    /\ configFile = [exists |-> TRUE, mtime |-> 1]
    /\ lastWriteTime_ = 1
    /\ config_ = 1
    /\ mainPc = "repository.initialize"
    /\ pollFlag = FALSE
    /\ pollCurrent = 0
    /\ pollLog = <<>>
    /\ edits = 0
    /\ CallersConstructed
    /\ MonitorConstructed
    /\ IdsConstructed
    /\ shouldRun = TRUE
    /\ exitCode = "none"
    /\ listening = {}
    /\ svcRunning_ = FALSE
    /\ videoRunning_ = FALSE
    /\ relayPc = "none"
    /\ lifeLog = <<>>
    /\ VideoConstructed
    /\ LoadConstructed
    /\ CopiesConstructed

\* main: repository.initialize(config.database); failure -> EXIT_FAILURE
BootDatabase ==
    /\ mainPc = "repository.initialize"
    /\ IF dbUp
         THEN /\ mainPc' = "publisher.start"
              /\ lifeLog' = Append(lifeLog, LifeEvent("start", "repository"))
              /\ UNCHANGED exitCode
         ELSE /\ mainPc' = "exited"
              /\ exitCode' = "failure"
              /\ UNCHANGED lifeLog
    /\ MainFrame
    /\ UNCHANGED <<states_, serviceVars>>
    /\ UNCHANGED <<shouldRun, listening, svcRunning_, videoRunning_, relayPc>>

BootPublisherGoesOn(ok) ==
    /\ mainPc = "publisher.start"
    /\ IF ok
         THEN /\ listening' = listening \cup {"publisher"}
              /\ states_' = update(states_, "telemetry_publisher", TRUE,
                                   "Server listening", now)
              /\ lifeLog' = Append(lifeLog, LifeEvent("start", "publisher"))
         ELSE UNCHANGED <<listening, states_, lifeLog>>
    /\ mainPc' = "telemetryService.start"
    /\ UNCHANGED exitCode
    /\ MainFrame
    /\ UNCHANGED serviceVars
    /\ UNCHANGED <<shouldRun, svcRunning_, videoRunning_, relayPc>>

\* main: publisher.start(); the server listens and the health entry is
\* set, or Start fails -> EXIT_FAILURE
BootPublisher(ok) ==
    /\ mainPc = "publisher.start"
    /\ IF ok
         THEN /\ listening' = listening \cup {"publisher"}
              /\ states_' = update(states_, "telemetry_publisher", TRUE,
                                   "Server listening", now)
              /\ lifeLog' = Append(lifeLog, LifeEvent("start", "publisher"))
              /\ mainPc' = "telemetryService.start"
              /\ UNCHANGED exitCode
         ELSE /\ mainPc' = "exited"
              /\ exitCode' = "failure"
              /\ UNCHANGED <<listening, states_, lifeLog>>
    /\ MainFrame
    /\ UNCHANGED serviceVars
    /\ UNCHANGED <<shouldRun, svcRunning_, videoRunning_, relayPc>>

\* main: TelemetryService telemetryService(...); telemetryService.start()
BootService ==
    /\ mainPc = "telemetryService.start"
    /\ TelemetryServiceStarts
    /\ mainPc' = "videoManager.start"

\* main: videoManager.start(port); on failure a warning, and main goes on.
\* VideoManager::start: server Start, running_ = true, the relay thread
BootVideo(ok) ==
    /\ mainPc = "videoManager.start"
    /\ IF ok
         THEN /\ listening' = listening \cup {"video"}
              /\ videoRunning_' = TRUE
              /\ relayPc' = "loop"
              /\ states_' = update(states_, "video_manager", TRUE,
                                   "Listening on port", now)
              /\ lifeLog' = Append(lifeLog, LifeEvent("start", "video"))
         ELSE /\ states_' = update(states_, "video_manager", FALSE, "Start failed", now)
              /\ UNCHANGED <<listening, videoRunning_, relayPc, lifeLog>>
    /\ mainPc' = "exchange"
    /\ MainFrame
    /\ UNCHANGED serviceVars
    /\ UNCHANGED <<shouldRun, exitCode, svcRunning_>>

\* SIGINT or SIGTERM once main has installed handleSignal
Signal ==
    /\ mainPc = "exchange"
    /\ shouldRun
    /\ shouldRun' = FALSE
    /\ MainFrame
    /\ UNCHANGED <<states_, serviceVars, mainPc>>
    /\ UNCHANGED <<exitCode, listening, svcRunning_, videoRunning_, relayPc, lifeLog>>

\* while (shouldRun.load()) is false: main goes on to the stops
LeaveLoop ==
    /\ mainPc = "exchange"
    /\ ~shouldRun
    /\ mainPc' = "videoManager.stop"
    /\ MainFrame
    /\ UNCHANGED <<states_, serviceVars, lifeVars>>

\* VideoManager::stop up to the join: not running -> return; else
\* running_ = false and queueCv_.notify_all(), which wakes a relay thread
\* that is blocked in wait
VideoStopBegin ==
    /\ mainPc = "videoManager.stop"
    /\ IF ~videoRunning_
         THEN /\ mainPc' = "telemetryService.stop"
              /\ lifeLog' = Append(lifeLog, LifeEvent("stop", "video"))
              /\ UNCHANGED <<videoRunning_, relayPc>>
         ELSE /\ videoRunning_' = FALSE
              /\ relayPc' = IF relayPc = "blocked" THEN "woken" ELSE relayPc
              /\ mainPc' = "videoManager.join"
              /\ UNCHANGED lifeLog
    /\ MainFrame
    /\ UNCHANGED <<states_, serviceVars>>
    /\ UNCHANGED <<shouldRun, exitCode, listening, svcRunning_>>

\* VideoManager::stop: relayThread_.join() returns, then server_->Stop()
VideoJoin ==
    /\ mainPc = "videoManager.join"
    /\ relayPc = "done"
    /\ listening' = listening \ {"video"}
    /\ lifeLog' = Append(lifeLog, LifeEvent("stop", "video"))
    /\ mainPc' = "telemetryService.stop"
    /\ MainFrame
    /\ UNCHANGED <<states_, serviceVars>>
    /\ UNCHANGED <<shouldRun, exitCode, svcRunning_, videoRunning_, relayPc>>

\* TelemetryService::stop up to the join: running_.exchange(false)
ServiceStopBegin ==
    /\ mainPc = "telemetryService.stop"
    /\ svcRunning_' = FALSE
    /\ IF svcRunning_
         THEN /\ mainPc' = "telemetryService.join"
              /\ UNCHANGED lifeLog
         ELSE /\ mainPc' = "publisher.stop"
              /\ lifeLog' = Append(lifeLog, LifeEvent("stop", "pipeline"))
    /\ MainFrame
    /\ UNCHANGED <<states_, serviceVars>>
    /\ UNCHANGED <<shouldRun, exitCode, listening, videoRunning_, relayPc>>

ServiceJoinNoWait ==
    /\ mainPc = "telemetryService.join"
    /\ lifeLog' = Append(lifeLog, LifeEvent("stop", "pipeline"))
    /\ mainPc' = "publisher.stop"
    /\ MainFrame
    /\ UNCHANGED <<states_, serviceVars>>
    /\ UNCHANGED <<shouldRun, exitCode, listening, svcRunning_, videoRunning_, relayPc>>

\* TelemetryService::stop: worker_.join() returns
ServiceJoin ==
    /\ mainPc = "telemetryService.join"
    /\ pc = "done"
    /\ lifeLog' = Append(lifeLog, LifeEvent("stop", "pipeline"))
    /\ mainPc' = "publisher.stop"
    /\ MainFrame
    /\ UNCHANGED <<states_, serviceVars>>
    /\ UNCHANGED <<shouldRun, exitCode, listening, svcRunning_, videoRunning_, relayPc>>

\* runLoop: while (running_) is false: the worker thread ends
PipelineExit ==
    /\ pc = "realtime"
    /\ ~svcRunning_
    /\ pc' = "done"
    /\ UNCHANGED <<cacheVars, envVars, gatewayVars, routerVars, publisherVars>>
    /\ UNCHANGED <<correlationId_, pipePending, iterStart, lastHistorical>>
    /\ UNCHANGED laterVars

\* what the relay thread's steps on the loop and the wait leave alone
RelayFrame ==
    /\ UNCHANGED <<cacheVars, envVars, gatewayVars, routerVars, publisherVars, serviceVars>>
    /\ UNCHANGED <<supervisorVars, callerVars, monitorVars, idVars, loadVars, copyVars, feedVars>>
    /\ UNCHANGED <<shouldRun, exitCode, listening, svcRunning_, videoRunning_, lifeLog>>

\* relayThreadFunc: while (running_), then unique_lock lk(queueMutex_)
RelayLoop ==
    /\ relayPc = "loop"
    /\ relayPc' = IF videoRunning_ THEN "locked" ELSE "done"
    /\ RelayFrame
    /\ UNCHANGED videoVars

\* queueCv_.wait(lk, pred): the predicate is evaluated with the mutex held
RelayCheck ==
    /\ relayPc \in {"locked", "woken"}
    /\ relayPc' = IF packetQueue_ # <<>> \/ ~videoRunning_ THEN "awake" ELSE "waiting"
    /\ RelayFrame
    /\ UNCHANGED videoVars

\* the predicate was false: wait releases the mutex and blocks
RelayBlock ==
    /\ relayPc = "waiting"
    /\ relayPc' = "blocked"
    /\ RelayFrame
    /\ UNCHANGED videoVars

\* after the wait: if (!running_) break; else the front packet is taken
RelayAwake ==
    /\ relayPc = "awake"
    /\ IF ~videoRunning_
         THEN /\ relayPc' = "done"
              /\ UNCHANGED videoVars
         ELSE /\ relayPkt' = <<Head(packetQueue_)>>
              /\ packetQueue_' = Tail(packetQueue_)
              /\ relayPc' = "broadcast"
              /\ UNCHANGED <<videoConns, clients_, videoLog, videoSent>>
    /\ RelayFrame

\* the one subscriber that connects while the process lives
LifeConns == {1}

\* The body of main's poll loop is ReloadNext's; here the loop is its
\* condition (LeaveLoop) and the signal that clears it.
LifeNext ==
    \/ BootDatabase
    \/ \E ok \in BOOLEAN : BootPublisher(ok)
    \/ BootService
    \/ \E ok \in BOOLEAN : BootVideo(ok)
    \/ Signal
    \/ LeaveLoop
    \/ VideoStopBegin
    \/ VideoJoin
    \/ ServiceStopBegin
    \/ ServiceJoin
    \/ PublisherStop
    \/ StopBegin
    \/ \E c \in LifeConns : Accept(c)
    \/ \E c \in LifeConns : AcceptPublish(c)
    \/ PipelineRealtime
    \/ PipelineRealtimePublish
    \/ PipelineHistorical
    \/ PipelineHistoricalPublish
    \/ PipelineSleep
    \/ PipelineExit
    \/ RelayLoop
    \/ RelayCheck
    \/ RelayBlock
    \/ RelayAwake

SpecLife == BootInit /\ [][LifeNext]_vars

(***************************************************************************)
(* The start of the process with the construction of the telemetry service *)
(* in two steps: the publisher listens from publisher.start() on, and the  *)
(* constructor's setSnapshotProvider assigns snapshotProvider_ on the main *)
(* thread while the I/O threads run OnAccept, which reads it with no lock. *)
(***************************************************************************)
\* main: the TelemetryService constructor has copied its configuration and
\* built its cache, and enters publisher_.setSnapshotProvider
ConstructorBegins ==
    /\ mainPc = "telemetryService.start"
    /\ mainPc' = "setSnapshotProvider"
    /\ MainFrame
    /\ UNCHANGED <<states_, serviceVars, lifeVars>>

\* main: the assignment to snapshotProvider_ is complete, and start()
\* spawns the worker
ConstructorEnds ==
    /\ mainPc = "setSnapshotProvider"
    /\ TelemetryServiceStarts
    /\ mainPc' = "videoManager.start"

\* OnAccept while no assignment to snapshotProvider_ is under way
AcceptApart(c) == mainPc # "setSnapshotProvider" /\ Accept(c)

\* OnAccept runs while the main thread is inside the assignment: the test
\* of snapshotProvider_ sees the empty function or the lambda
AcceptRacing(c, seen) ==
    /\ mainPc = "setSnapshotProvider"
    /\ "publisher" \in listening
    /\ c \notin serverConns
    /\ c = accepts + 1
    /\ accepts < MaxAccepts
    /\ accepts' = accepts + 1
    /\ serverConns' = serverConns \cup {c}
    /\ LET r == onAcceptBegin([World EXCEPT !.conns = @ \cup {c},
                                            !.sent[c] = <<>>,
                                            !.provider = seen], Env, c)
       IN  /\ Commit(r.w)
           /\ acceptPending' = [acceptPending EXCEPT ![c] = r.frames]
           /\ acceptLog' = Append(acceptLog,
                                  [id |-> c, provided |-> seen,
                                   cache |-> cache_, frames |-> r.frames,
                                   calls |-> <<>>, done |-> r.frames = <<>>])
    /\ UNCHANGED <<capacity_, snapOut, now, endpointUp, ubCast, wire,
                   linesWritten, deadPeers, dbUp, soilUp, published, snapshotProvider_>>
    /\ UNCHANGED <<buffers_, fed, dispatched>>
    /\ UNCHANGED <<pc, pipePending, iterStart, lastHistorical>>
    /\ UNCHANGED laterVars

\* the same, when the test sees the half-assigned function as set and the
\* call through it brings the process down
AcceptTorn(c) ==
    /\ mainPc = "setSnapshotProvider"
    /\ "publisher" \in listening
    /\ c \notin serverConns
    /\ c = accepts + 1
    /\ accepts < MaxAccepts
    /\ accepts' = accepts + 1
    /\ mainPc' = "exited"
    /\ exitCode' = "crashed"
    /\ listening' = {}
    /\ UNCHANGED <<cacheVars, gatewayVars, routerVars, publisherVars, serviceVars>>
    /\ UNCHANGED <<now, endpointUp, ubCast, wire, linesWritten, deadPeers, dbUp,
                   soilUp, published>>
    /\ UNCHANGED <<callerVars, monitorVars, idVars, videoVars, loadVars, copyVars, feedVars>>
    /\ UNCHANGED <<configFile, lastWriteTime_, config_, pollFlag, pollCurrent, pollLog, edits>>
    /\ UNCHANGED <<shouldRun, svcRunning_, videoRunning_, relayPc, lifeLog>>

ProviderNext ==
    \/ BootDatabase
    \/ \E ok \in BOOLEAN : BootPublisher(ok)
    \/ ConstructorBegins
    \/ ConstructorEnds
    \/ \E c \in ConnIds : AcceptApart(c)
    \/ \E c \in ConnIds, seen \in BOOLEAN : AcceptRacing(c, seen)
    \/ \E c \in ConnIds : AcceptTorn(c)
    \/ \E c \in ConnIds : AcceptPublish(c)
    \/ PipelineRealtime
    \/ PipelineRealtimePublish
    \/ PipelineHistorical
    \/ PipelineHistoricalPublish
    \/ PipelineSleep

SpecProvider == BootInit /\ [][ProviderNext]_vars

\* The threads of the process, each scheduled again and again while it has
\* a step to take; signals and connections come when they come.
MainSteps ==
    \/ BootDatabase
    \/ \E ok \in BOOLEAN : BootPublisher(ok)
    \/ BootService
    \/ \E ok \in BOOLEAN : BootVideo(ok)
    \/ LeaveLoop
    \/ VideoStopBegin
    \/ VideoJoin
    \/ ServiceStopBegin
    \/ ServiceJoin
    \/ PublisherStop
    \/ StopBegin

WorkerSteps ==
    \/ PipelineRealtime
    \/ PipelineHistorical
    \/ PipelineSleep
    \/ PipelineExit

RelaySteps ==
    \/ RelayLoop
    \/ RelayCheck
    \/ RelayBlock
    \/ RelayAwake

WriterSteps ==
    \/ WriterCheck
    \/ FlushCopy
    \/ FlushOpen
    \/ FlushWrite
    \/ WriterWake

\* No subscriber connects here, so the worker's publishes return at once
\* and its steps are the read, the loads, the sleep and the exit.
StopNext ==
    \/ MainSteps
    \/ Signal
    \/ WorkerSteps
    \/ RelaySteps

SpecStop ==
    /\ BootInit
    /\ [][StopNext]_vars
    /\ WF_vars(MainSteps)
    /\ WF_vars(WorkerSteps)
    /\ WF_vars(RelaySteps)

\* the same with the health registry's writer thread and the join of it
SpecStopAll ==
    /\ BootInit
    /\ [][StopNext \/ StopJoin \/ WriterSteps]_vars
    /\ WF_vars(MainSteps \/ StopJoin)
    /\ WF_vars(WorkerSteps)
    /\ WF_vars(RelaySteps)
    /\ WF_vars(WriterSteps)

(***************************************************************************)
(* The video channel: connections come and go, declare a role and send     *)
(* data, while the relay thread takes packets from the queue and sends     *)
(* them on.                                                                *)
(***************************************************************************)
MaxVideoReceives == 3

VideoConns == {1, 2}

\* what a connection sends in one message: a role declaration, bare or with
\* a newline after it, or video data
RolePublisher == <<"ROLE:", "PUBLISHER">>
RolePublisherLine == <<"ROLE:", "PUBLISHER", "\n">>
RoleSubscriber == <<"ROLE:", "SUBSCRIBER">>
VideoPayloads == {RolePublisher, RolePublisherLine, RoleSubscriber, <<"v1">>, <<"v2">>}

\* payload.rfind("ROLE:", 0) == 0
IsRoleDeclaration(payload) == payload # <<>> /\ Head(payload) = "ROLE:"

\* the relay thread holds queueMutex_ from its lock to the wait or the unlock
RelayHoldsQueue == relayPc \in {"locked", "waiting", "awake"}

\* VideoManager::OnReceive: a role declaration sets isPublisher to
\* (payload.substr(5) == "PUBLISHER"); data of a known connection that is
\* not a publisher is ignored; other data is pushed on the queue
videoOnReceive(clients, queue, c, payload) ==
    IF payload = <<>> THEN [clients |-> clients, queue |-> queue, outcome |-> "empty"]
    ELSE IF IsRoleDeclaration(payload)
      THEN [clients |-> IF c \in DOMAIN clients
                          THEN [clients EXCEPT ![c].isPublisher =
                                   (Tail(payload) = <<"PUBLISHER">>)]
                          ELSE clients,
            queue |-> queue, outcome |-> "role"]
    ELSE IF c \in DOMAIN clients /\ ~clients[c].isPublisher
      THEN [clients |-> clients, queue |-> queue, outcome |-> "ignored"]
    ELSE [clients |-> clients, queue |-> Append(queue, payload), outcome |-> "enqueued"]

relayTargetsEveryone(clients) == DOMAIN clients

\* relayThreadFunc: the clients the packet is sent to
relayTargets(clients) == {c \in DOMAIN clients : ~clients[c].isPublisher}

\* what the steps of the video channel leave alone
VideoFrame ==
    /\ UNCHANGED <<cacheVars, envVars, routerVars, publisherVars, serviceVars>>
    /\ UNCHANGED <<modbus_, lastAttempt_, holding, made>>
    /\ UNCHANGED <<supervisorVars, callerVars, monitorVars, idVars, loadVars, copyVars, feedVars>>
    /\ UNCHANGED <<shouldRun, exitCode, listening, svcRunning_, videoRunning_, lifeLog>>

\* the video server is started and the relay thread is at the top of its loop
VideoInit ==
    /\ states_ = update(ListeningStates, "video_manager", TRUE, "Listening on port", StartClock)
    /\ PlanesConstructed
    /\ SupervisorConstructed
    /\ CallersConstructed
    /\ MonitorConstructed
    /\ IdsConstructed
    /\ LoadConstructed
    /\ CopiesConstructed
    /\ VideoConstructed
    /\ capacity_ = 1
    /\ endpointUp = TRUE
    /\ dbUp = TRUE
    /\ soilUp = TRUE
    /\ ubCast = "wrap"
    /\ shouldRun = TRUE
    /\ exitCode = "none"
    /\ listening = {"publisher", "video"}
    /\ svcRunning_ = FALSE
    /\ videoRunning_ = TRUE
    /\ relayPc = "loop"
    /\ lifeLog = <<>>

\* an accept or a close, for the history of the channel
VideoEvent(c, outcome) ==
    [conn |-> c, payload |-> <<>>, wasPublisher |-> FALSE, outcome |-> outcome]

\* the places of the history that hold a message
VideoReceived == {i \in 1..Len(videoLog) : videoLog[i].outcome \notin {"accept", "close"}}

\* the connections accepted so far
VideoAccepted == {videoLog[i].conn : i \in {j \in 1..Len(videoLog) : videoLog[j].outcome = "accept"}}

\* VideoManager::OnAccept: clients_[id] = {id, false}; the transport gives
\* every connection the next id
VideoAccept(c) ==
    /\ c \notin VideoAccepted
    /\ c = Cardinality(VideoAccepted) + 1
    /\ videoLog' = Append(videoLog, VideoEvent(c, "accept"))
    /\ videoConns' = videoConns \cup {c}
    /\ clients_' = [d \in DOMAIN clients_ \cup {c} |->
                      IF d = c THEN [id |-> c, isPublisher |-> FALSE] ELSE clients_[d]]
    /\ states_' = update(states_, "video_manager", TRUE, "Client connected", now)
    /\ VideoFrame
    /\ UNCHANGED <<packetQueue_, relayPkt, videoSent, relayPc>>

\* VideoManager::OnClose: clients_.erase(id)
VideoClose(c) ==
    /\ c \in videoConns
    /\ videoConns' = videoConns \ {c}
    /\ clients_' = [d \in DOMAIN clients_ \ {c} |-> clients_[d]]
    /\ states_' = update(states_, "video_manager", TRUE, "Client disconnected", now)
    /\ videoLog' = Append(videoLog, VideoEvent(c, "close"))
    /\ VideoFrame
    /\ UNCHANGED <<packetQueue_, relayPkt, videoSent, relayPc>>

\* VideoManager::OnReceive for one message of connection c; the push waits
\* for queueMutex_, and notify_one wakes the relay thread if it is blocked
VideoReceive(c, payload) ==
    /\ c \in videoConns
    /\ Cardinality(VideoReceived) < MaxVideoReceives
    /\ LET r == videoOnReceive(clients_, packetQueue_, c, payload)
       IN  /\ r.outcome = "enqueued" => ~RelayHoldsQueue
           /\ clients_' = r.clients
           /\ packetQueue_' = r.queue
           /\ relayPc' = IF r.outcome = "enqueued" /\ relayPc = "blocked"
                           THEN "woken" ELSE relayPc
           /\ videoLog' = Append(videoLog,
                                 [conn |-> c, payload |-> payload,
                                  wasPublisher |-> clients_[c].isPublisher,
                                  outcome |-> r.outcome])
    /\ VideoFrame
    /\ UNCHANGED <<states_, videoConns, relayPkt, videoSent>>

\* relayThreadFunc: under clientsMutex_, Send the packet to every client
\* that is not a publisher; then the health update
RelayBroadcast ==
    /\ relayPc = "broadcast"
    /\ videoSent' = Append(videoSent,
                           [data |-> Head(relayPkt), to |-> relayTargets(clients_),
                            publishers |-> {c \in DOMAIN clients_ : clients_[c].isPublisher}])
    /\ relayPkt' = <<>>
    /\ states_' = update(states_, "video_manager", TRUE, "Video packet broadcast", now)
    /\ relayPc' = "loop"
    /\ VideoFrame
    /\ UNCHANGED <<videoConns, clients_, packetQueue_, videoLog>>

VideoNext ==
    \/ \E c \in VideoConns : VideoAccept(c)
    \/ \E c \in VideoConns : VideoClose(c)
    \/ \E c \in VideoConns, payload \in VideoPayloads : VideoReceive(c, payload)
    \/ RelayLoop
    \/ RelayCheck
    \/ RelayBlock
    \/ RelayAwake
    \/ RelayBroadcast

SpecVideo == VideoInit /\ [][VideoNext]_vars

(***************************************************************************)
(* Claims about the life of the process                                    *)
(***************************************************************************)
\* the components whose start or stop the log holds, in the log's order
RECURSIVE LifeComponents(_, _)
LifeComponents(log, event) ==
    IF log = <<>> THEN <<>>
    ELSE IF Head(log).event = event
           THEN <<Head(log).component>> \o LifeComponents(Tail(log), event)
           ELSE LifeComponents(Tail(log), event)

Stopped == LifeComponents(lifeLog, "stop")
Started == LifeComponents(lifeLog, "start")

StopOrder == <<"video", "pipeline", "publisher">>

HealthStopCalled == mainPc \in {"join", "stopped"}

PipelineStopEvent ==
    CHOOSE e \in {lifeLog[i] : i \in 1..Len(lifeLog)} :
        e.event = "stop" /\ e.component = "pipeline"

\* C21: main goes on to the stops only with shouldRun cleared, and stops
\* the video relay, then the pipeline, then the publisher, then the health
\* registry: when the publisher is stopped the pipeline worker has ended
\* and has stored nothing since its stop returned, and when the health
\* registry is stopped the three others have been stopped.
C21_StopOrder ==
    /\ Stopped = SubSeq(StopOrder, 1, Len(Stopped))
    /\ Stopped # <<>> => ~shouldRun
    /\ Len(Stopped) >= 2 =>
          /\ pc = "done"
          /\ pipePending = <<>>
          /\ stored = PipelineStopEvent.stored
    /\ HealthStopCalled => Stopped = StopOrder

C21_Witness ==
    /\ HealthStopCalled
    /\ Started = <<"repository", "publisher", "pipeline", "video">>
    /\ \E ch \in DOMAIN stored : stored[ch] # <<>>
    /\ sent[1] # <<>>

StartOrder == <<"repository", "publisher", "pipeline", "video">>

VideoStartFailed ==
    /\ "video_manager" \in DOMAIN states_
    /\ states_["video_manager"].detail = "Start failed"

\* C22: when the database cannot be reached at boot, main exits with a
\* failure and nothing is started; when the publisher cannot start, main
\* exits with a failure and neither the pipeline worker nor the video relay
\* is started; when only the video relay cannot start, the publisher
\* listens, the pipeline worker runs and main is in its poll loop.
C22_BootFailures ==
    /\ Started = SubSeq(StartOrder, 1, Len(Started))
    /\ (~dbUp /\ mainPc # "repository.initialize") =>
          /\ exitCode = "failure"
          /\ Started = <<>>
          /\ listening = {}
    /\ exitCode = "failure" =>
          /\ mainPc = "exited"
          /\ Len(Started) <= 1
          /\ listening = {}
          /\ pc = "unbuilt" /\ ~svcRunning_
          /\ relayPc = "none" /\ ~videoRunning_
    /\ mainPc = "exited" => exitCode = "failure"
    /\ (VideoStartFailed /\ shouldRun) =>
          /\ exitCode = "none"
          /\ mainPc = "exchange"
          /\ "publisher" \in listening
          /\ svcRunning_ /\ pc \notin {"unbuilt", "done"}
          /\ Started = <<"repository", "publisher", "pipeline">>

\* the cases where main exits: the database is down, the publisher did not
\* start
C22_WitnessDatabase == ~dbUp /\ exitCode = "failure"

C22_WitnessPublisher == dbUp /\ exitCode = "failure" /\ Started = <<"repository">>

\* the video relay did not start, and the pipeline has since published to a
\* subscriber
C22_Witness == VideoStartFailed /\ shouldRun /\ sent[1] # <<>>

\* C23 (the video relay): a stop() that found the relay running returns,
\* with the relay thread joined.
C23_VideoStopReturns ==
    (mainPc = "videoManager.join") ~> (mainPc = "telemetryService.stop")

\* the pipeline's stop() returns once it is called
PipelineStopReturns ==
    (mainPc = "telemetryService.join") ~> (mainPc = "publisher.stop")

\* the health registry's stop() returns once it is called
HealthStopReturns == (mainPc = "join") ~> (mainPc = "stopped")

\* the relay thread blocked in wait after stop() has notified: nobody will
\* notify again
RelayLeftBlocked ==
    /\ mainPc = "videoManager.join"
    /\ relayPc = "blocked"
    /\ ~videoRunning_

\* the transport hands a new connection to OnAccept
AcceptStep == accepts' = accepts + 1

\* OnAccept has run to its publish loop with the frames of the provider
SnapshotTriggered ==
    /\ Len(acceptLog') = Len(acceptLog) + 1
    /\ acceptLog'[Len(acceptLog')].provided
    /\ Len(acceptLog'[Len(acceptLog')].frames) = 3

\* C38: the snapshot provider is registered before the publisher can accept
\* a connection and is not modified afterwards: every connection accepted
\* after publisher start triggers the join-time snapshot broadcast, and no
\* accept callback reads the provider while it is being set.
C38_ProviderBeforeAccept ==
    [][/\ "publisher" \in listening' => snapshotProvider_'
       /\ snapshotProvider_ => snapshotProvider_'
       /\ AcceptStep => /\ mainPc # "setSnapshotProvider"
                        /\ SnapshotTriggered]_vars

\* the part of C38 that holds: the provider is set once and stays, and a
\* connection accepted after the constructor has returned triggers the
\* snapshot broadcast
C38_AfterConstruction ==
    [][/\ snapshotProvider_ => snapshotProvider_'
       /\ AcceptStep /\ pc # "unbuilt" => SnapshotTriggered]_vars

\* the publisher listens and no provider is registered
C38_ListeningWithoutProvider ==
    /\ "publisher" \in listening
    /\ ~snapshotProvider_
    /\ mainPc = "telemetryService.start"

\* a connection accepted before the constructor ran is still connected
\* when the worker runs, and has been sent no snapshot
C38_JoinedWithoutSnapshot ==
    /\ pc = "historical"
    /\ \E i \in 1..Len(acceptLog) :
           /\ ~acceptLog[i].provided
           /\ acceptLog[i].frames = <<>>
           /\ acceptLog[i].id \in serverConns

\* an accept callback read the provider during the assignment and the
\* process went down
C38_ReadWhileSet ==
    /\ exitCode = "crashed"
    /\ accepts = 1
    /\ ~snapshotProvider_

(***************************************************************************)
(* Claims about the repository                                             *)
(***************************************************************************)
LabelOf(relation) ==
    IF relation = "environmental_conditions" THEN "Historical_ENV" ELSE "Historical_Soil"

\* C24: a load returns one reading per row the store returned, in the
\* reversed order: the reading at place i is the decoded row at place
\* n + 1 - i of the result, so a result with times T3, T2, T1 gives
\* readings with timestamps T1, T2, T3.
C24_LoadReverses ==
    loadOut # NoLoad =>
        LET n == Len(loadOut.result)
        IN  /\ Len(loadOut.readings) = n
            /\ \A i \in 1..n :
                  /\ loadOut.readings[i].timestamp = TimestampOf(loadOut.result[n + 1 - i])
                  /\ loadOut.readings[i].label = LabelOf(loadOut.relation)

C24_Witness ==
    /\ loadOut.relation = "environmental_conditions"
    /\ loadOut.result = <<"T3", "T2", "T1">>
    /\ [i \in 1..3 |-> loadOut.readings[i].timestamp] = <<"T1", "T2", "T3">>

(***************************************************************************)
(* Claims about the video channel                                          *)
(***************************************************************************)
\* the places of the history where connection c declared a role
RolesOf(c) == {i \in VideoReceived : videoLog[i].conn = c /\ videoLog[i].outcome = "role"}

LastRoleOf(c) == videoLog[CHOOSE i \in RolesOf(c) : \A j \in RolesOf(c) : j <= i].payload

\* the data pushed on the queue, in the order of arrival
EnqueuedData == SelectSeq(videoLog, LAMBDA e : e.outcome = "enqueued")

\* the data the relay thread has sent on, holds, or has still in the queue
RelayedThenQueued ==
    [i \in 1..Len(videoSent) |-> videoSent[i].data] \o relayPkt \o packetQueue_

\* C25: a connection is a publisher only when its last role declaration
\* was ROLE:PUBLISHER; data of a connection that is a subscriber when it
\* arrives is ignored, so what is enqueued came from publishers; the relay
\* thread sends packets on in the order of their arrival, each to no
\* connection that is a publisher.
C25_RolesAndRelay ==
    /\ \A c \in DOMAIN clients_ :
          clients_[c].isPublisher => (RolesOf(c) # {} /\ LastRoleOf(c) = RolePublisher)
    /\ \A i \in VideoReceived :
          LET e == videoLog[i]
          IN  /\ (e.outcome # "role" /\ ~e.wasPublisher) => e.outcome = "ignored"
              /\ e.outcome = "enqueued" => e.wasPublisher
    /\ RelayedThenQueued = [i \in 1..Len(EnqueuedData) |-> EnqueuedData[i].payload]
    /\ \A i \in 1..Len(videoSent) : videoSent[i].to \cap videoSent[i].publishers = {}

\* a publisher's two packets have been sent on, in their order, to the
\* subscriber and not to the publisher
C25_Witness ==
    /\ Len(videoSent) = 2
    /\ videoSent[1].data = <<"v1">> /\ videoSent[2].data = <<"v2">>
    /\ \A i \in 1..2 : videoSent[i].to = {2} /\ videoSent[i].publishers = {1}

\* data of a subscriber has been ignored while a packet of the publisher
\* went to it
C25_WitnessIgnored ==
    /\ \E i \in VideoReceived : videoLog[i].outcome = "ignored" /\ videoLog[i].conn = 2
    /\ Len(videoSent) = 1 /\ videoSent[1].to = {2}

\* the role declarations that announce a publisher: ROLE:PUBLISHER as a
\* message of its own, with or without a newline after it
PublisherDeclarations == {RolePublisher, RolePublisherLine}

\* C26: a connection whose last role declaration is ROLE:PUBLISHER, bare or
\* followed by a newline, is a publisher, and the data it sent since was
\* enqueued.
C26_DeclaredPublisher ==
    \A c \in DOMAIN clients_ :
        (RolesOf(c) # {} /\ LastRoleOf(c) \in PublisherDeclarations) =>
            /\ clients_[c].isPublisher
            /\ \A i \in VideoReceived :
                  (videoLog[i].conn = c /\ \A j \in RolesOf(c) : j < i) =>
                      videoLog[i].outcome = "enqueued"

\* the declaration with the newline has left the connection a subscriber
\* and its data was ignored
C26_LineNotPublisher ==
    \E c \in DOMAIN clients_ :
        /\ RolesOf(c) # {} /\ LastRoleOf(c) = RolePublisherLine
        /\ ~clients_[c].isPublisher
        /\ \E i \in VideoReceived : videoLog[i].conn = c /\ videoLog[i].outcome = "ignored"

\* the same claim for the bare declaration alone
C26_BareDeclaredPublisher ==
    \A c \in DOMAIN clients_ :
        (RolesOf(c) # {} /\ LastRoleOf(c) = RolePublisher) =>
            /\ clients_[c].isPublisher
            /\ \A i \in VideoReceived :
                  (videoLog[i].conn = c /\ \A j \in RolesOf(c) : j < i) =>
                      videoLog[i].outcome = "enqueued"

(***************************************************************************)
(* Claims about the pipeline worker's steps                                *)
(***************************************************************************)
\* the worker runs processRealtime up to its publish, and the publish
RealtimeStep == pc = "realtime" /\ pc' \in {"historical", "realtime_publish"}

RealtimePublishStep == pc = "realtime_publish" /\ pc' = "historical"

ServiceHealth == states_["telemetry_service"]

\* C27: in the realtime step a reading that was read is appended to the
\* Realtime channel of the cache, and exactly when the publisher reports a
\* subscriber one frame with channel Realtime, snapshot false and that one
\* reading is handed to publish; when the read fails the cache is as it was,
\* nothing is handed to publish and telemetry_service is marked unhealthy.
C27_RealtimeStep ==
    [][ /\ RealtimeStep =>
             LET r == readRealtime(World, Env)
             IN  IF r.ok
                   THEN /\ stored' = [stored EXCEPT !["Realtime"] = Append(@, r.reading)]
                        /\ cache_' = store(cache_, capacity_, "Realtime", r.reading)
                        /\ pubCalls' = <<>>
                        /\ (pc' = "realtime_publish") <=> (serverConns # {})
                        /\ pc' = "historical" => pipePending' = <<>>
                        /\ pc' = "realtime_publish" =>
                              /\ Len(pipePending') = 1
                              /\ pipePending'[1].channel = "Realtime"
                              /\ pipePending'[1].snapshot = FALSE
                              /\ pipePending'[1].readings = <<r.reading>>
                   ELSE /\ cache_' = cache_
                        /\ stored' = stored
                        /\ pubCalls' = <<>>
                        /\ pipePending' = <<>>
                        /\ pc' = "historical"
                        /\ ~ServiceHealth'.healthy
        /\ RealtimePublishStep =>
             /\ Len(pubCalls') = 1
             /\ pubCalls'[1].frame = pipePending[1]
             /\ Len(pipePending) = 1
             /\ cache_' = cache_
             /\ stored' = stored
             /\ ServiceHealth'.healthy
      ]_vars

\* the worker has published the frame of a reading it has just stored
C27_Witness ==
    /\ pc = "historical"
    /\ Len(pubCalls) = 1
    /\ pubCalls[1].frame.channel = "Realtime"
    /\ ~pubCalls[1].frame.snapshot
    /\ pubCalls[1].frame.readings = <<stored["Realtime"][Len(stored["Realtime"])]>>
    /\ pubCalls[1].conns # {}

\* a read has failed after an earlier one was stored
C27_WitnessFailed ==
    /\ pc = "historical"
    /\ "telemetry_service" \in DOMAIN states_
    /\ ServiceHealth.detail = "Realtime read failed"
    /\ stored["Realtime"] # <<>>

\* the worker is at `if (now - lastHistorical >= historicalInterval)` and
\* goes on, with processHistorical or without
HistoricalCheck == pc = "historical" /\ pc' \in {"sleep", "historical_publish"}

\* the step just taken ran processHistorical (up to its publishes, or whole)
HistoricalRan ==
    \/ pc' = "historical_publish"
    \/ ServiceHealth'.detail = "Historical frame published"

\* no historical step has run yet: the worker is in its first iteration
NoHistoricalYet == stored["HistoricalEnvironment"] = <<>>

\* C28: the historical step runs in the first iteration, and in a later one
\* exactly when HistoricalSeconds have passed since the previous historical
\* step finished; the realtime step comes first in every iteration; at the
\* end of an iteration the worker sleeps for what is left of
\* RealtimeSeconds, and not at all when the iteration took that long.
C28_Cadence ==
    [][ /\ HistoricalCheck =>
             /\ HistoricalRan <=>
                   (NoHistoricalYet \/ now - lastHistorical >= HistoricalSeconds)
             /\ (HistoricalRan /\ pc' = "sleep") => lastHistorical' = now
             /\ ~HistoricalRan => lastHistorical' = lastHistorical
        /\ (pc = "historical_publish" /\ pc' # pc) =>
             /\ pc' = "sleep"
             /\ lastHistorical' = now
        /\ (pc = "realtime" /\ pc' # pc) =>
             /\ pc' \in {"realtime_publish", "historical"}
             /\ iterStart' = now
        /\ (pc = "realtime_publish" /\ pc' # pc) => pc' = "historical"
        /\ (pc = "sleep" /\ pc' # pc) =>
             /\ pc' = "realtime"
             /\ now' = IF now - iterStart < RealtimeSeconds
                         THEN iterStart + RealtimeSeconds
                         ELSE now
      ]_vars

\* the historical step has run a second time, HistoricalSeconds or more
\* after the first
C28_Witness ==
    /\ pc = "sleep"
    /\ Len(stored["HistoricalEnvironment"]) = 2 * Len(SelectDesc(EnvRows, capacity_))
    /\ lastHistorical >= StartClock + HistoricalSeconds

\* an iteration after the first has skipped the historical step
C28_WitnessSkipped ==
    /\ pc = "sleep"
    /\ ~NoHistoricalYet
    /\ lastHistorical < iterStart
    /\ now - lastHistorical < HistoricalSeconds

\* an iteration has taken longer than RealtimeSeconds and the next has
\* started without a sleep
C28_WitnessNoSleep ==
    /\ pc = "realtime"
    /\ ~NoHistoricalYet
    /\ now > iterStart + RealtimeSeconds

\* the lists a historical step begun now loads
LoadedEnv == loadEnvironmental(World, Env, capacity_)
LoadedSoil == loadSoilAndAir(LoadedEnv.w, Env, capacity_)

\* the channels with a non-empty list, with their lists
LoadedJobs ==
    (IF LoadedEnv.readings # <<>>
       THEN <<[channel |-> "HistoricalEnvironment", readings |-> LoadedEnv.readings]>>
       ELSE <<>>)
    \o (IF LoadedSoil.readings # <<>>
          THEN <<[channel |-> "HistoricalSoil", readings |-> LoadedSoil.readings]>>
          ELSE <<>>)

C29_WitnessBoth ==
    /\ pc = "sleep"
    /\ Len(pubCalls) = 2
    /\ pubCalls[1].frame.channel = "HistoricalEnvironment"
    /\ pubCalls[2].frame.channel = "HistoricalSoil"
    /\ pubCalls[1].frame.snapshot /\ pubCalls[2].frame.snapshot

\* a historical step with the database down and a subscriber connected
\* has stored and published nothing
C29_WitnessFailed ==
    /\ pc = "sleep"
    /\ serverConns # {}
    /\ \A c \in {"HistoricalEnvironment", "HistoricalSoil"} : stored[c] = <<>>
    /\ ServiceHealth.detail = "Historical frame published"

\* a historical step that runs while the database cannot be reached: the
\* ping, the reconnect and both queries fail
HistoricalStepFails == pc = "historical" /\ pc' # pc /\ HistoricalRan /\ ~dbUp

\* the entries of the health registry the step has written as unhealthy
MarkedUnhealthy ==
    {k \in DOMAIN states_' :
        /\ ~states_'[k].healthy
        /\ (k \notin DOMAIN states_ \/ states_[k] # states_'[k])}

\* C30: a historical step whose SQL ping, reconnect or query fails leaves
\* an unhealthy entry in the health registry for that failure.
C30_FailureShown == [][HistoricalStepFails => MarkedUnhealthy # {}]_vars

\* the rest of C30: the failed loads give empty lists and the worker goes
\* on to its sleep
C30_FailureAbsorbed ==
    [][HistoricalStepFails =>
          /\ LoadedEnv.readings = <<>> /\ LoadedSoil.readings = <<>>
          /\ pc' = "sleep"
          /\ svcRunning_' = svcRunning_]_vars

\* after such a step the registry holds the entry the step always writes,
\* and it is healthy
C30_FailureHidden ==
    [][HistoricalStepFails =>
          /\ MarkedUnhealthy = {}
          /\ ServiceHealth'.healthy
          /\ ServiceHealth'.detail = "Historical frame published"]_vars

\* the worker finishes an iteration: the next thing it does is its sleep
EndOfIteration == pc \in {"historical", "historical_publish"} /\ pc' = "sleep"

\* the realtime read of the iteration under way failed: processRealtime
\* ends with an update of telemetry_service in either case, and nothing
\* else has written that entry since
RealtimeReadFailed ==
    /\ ~ServiceHealth.healthy
    /\ ServiceHealth.detail = "Realtime read failed"

\* C36: at the end of every pipeline iteration whose realtime read failed
\* the registry entry of telemetry_service is unhealthy; no later step of
\* the same iteration overwrites it with a healthy entry.
C36_FailureStays ==
    [][EndOfIteration /\ RealtimeReadFailed => ~ServiceHealth'.healthy]_vars

\* the part of C36 that holds: in an iteration that skips the historical
\* step the entry of the failed read stays as it is
C36_StaysWhenSkipped ==
    [][EndOfIteration /\ RealtimeReadFailed /\ pc = "historical" /\ ~HistoricalRan
          => ServiceHealth' = ServiceHealth]_vars

\* in an iteration that runs the historical step the entry of the failed
\* read is replaced by the healthy one processHistorical always writes
C36_Overwritten ==
    [][EndOfIteration /\ RealtimeReadFailed
          /\ (pc = "historical_publish" \/ HistoricalRan)
          => /\ ServiceHealth'.healthy
             /\ ServiceHealth'.detail = "Historical frame published"]_vars

\* the relation a historical channel is loaded from, oldest row first
HistoricalTable(channel) ==
    IF channel = "HistoricalEnvironment" THEN EnvRows ELSE SoilRows

HistoricalChannels == {"HistoricalEnvironment", "HistoricalSoil"}

\* the place of a reading's row in its relation
RowOf(channel, reading) ==
    CHOOSE i \in 1..Len(HistoricalTable(channel)) :
        TimestampOf(HistoricalTable(channel)[i]) = reading.timestamp

\* no row of the relation is in the snapshot twice
AtMostOnce(channel) ==
    LET s == snapshot(cache_, channel)
    IN  \A i, j \in 1..Len(s) : i < j => s[i].timestamp # s[j].timestamp

\* the snapshot goes from older rows to newer ones
OldestFirst(channel) ==
    LET s == snapshot(cache_, channel)
    IN  \A i, j \in 1..Len(s) :
            i < j => RowOf(channel, s[i]) <= RowOf(channel, s[j])

\* C37: after any number of historical steps the cache snapshot of each
\* historical channel holds every stored history row at most once, oldest
\* first, also when the relation holds fewer rows than the cache capacity
\* and the same rows are loaded again in the next step.
C37_HistoryOnceInOrder ==
    \A channel \in HistoricalChannels : AtMostOnce(channel) /\ OldestFirst(channel)

\* the part of C37 that holds: a channel whose relation holds at least as
\* many rows as the cache keeps shows, between historical steps, the newest
\* rows once each and oldest first
C37_FullRelationOnce ==
    \A channel \in HistoricalChannels :
        Len(HistoricalTable(channel)) >= capacity_ =>
            AtMostOnce(channel) /\ OldestFirst(channel)

\* the one soil row is in the snapshot twice after the second historical
\* step
C37_RowTwice ==
    LET s == snapshot(cache_, "HistoricalSoil")
    IN  /\ Len(s) = 2
        /\ s[1].timestamp = s[2].timestamp
        /\ s[1].seq < s[2].seq
        /\ Len(SoilRows) < capacity_

\* the health updates a call of the gateway made
HealthOps(c) == SelectSeq(c.trace, LAMBDA ev : ev.op = "health")

\* the call read or wrote its registers
Succeeded(c) == \E i \in 1..Len(c.trace) :
                    c.trace[i].op \in {"read", "write"} /\ c.trace[i].ok

\* the last thing the call did is an update of sensor_gateway that says
\* whether it succeeded
EndsWithUpdate(c) ==
    /\ c.trace # <<>>
    /\ LET last == c.trace[Len(c.trace)]
       IN  /\ last.op = "health"
           /\ last.what = "sensor_gateway"
           /\ last.ok = Succeeded(c)

\* the call found no handle and came inside the retry window
InsideRetryWindow(c) == ~c.modbus /\ c.at - c.lastAttempt < RetrySeconds

\* C31: every readRealtime and every writeRegister call, whether it
\* succeeds, fails on connect, fails on the read or write, or is cut short
\* by the retry window, ends with a health update of sensor_gateway whose
\* healthy flag is true iff the call succeeded.
C31_EveryCallUpdates == \A i \in 1..Len(gwCalls) : EndsWithUpdate(gwCalls[i])

\* the part of C31 that holds: every call that gets past the retry window
\* ends with such an update
C31_AttemptingCallsUpdate ==
    \A i \in 1..Len(gwCalls) : ~InsideRetryWindow(gwCalls[i]) => EndsWithUpdate(gwCalls[i])

\* a call cut short by the retry window makes no health update, and the
\* registry keeps the unhealthy entry of the failed connect
C31_ShortCircuitSilent ==
    \A i \in 1..Len(gwCalls) :
        InsideRetryWindow(gwCalls[i]) =>
            /\ HealthOps(gwCalls[i]) = <<>>
            /\ ~gwCalls[i].ok \/ gwCalls[i].method = "writeRegister"
            /\ i = Len(gwCalls) => ~states_["sensor_gateway"].healthy

\* the configuration the program booted with
BootConfig == fromJson(1)

\* the poll iterations that re-read the file
Rereads == {i \in 1..Len(pollLog) : pollLog[i].reread}

\* C32: a configuration reload, whether asked for by config_reload or found
\* by the periodic probe, leaves the pipeline's R, H and cache capacity K,
\* the gateway's retry window and register count and the publisher's bind
\* parameters as they were at construction, for the life of the process.
C32_ReloadLeavesComponents ==
    /\ TelemetryServiceConfig = BootConfig.pipeline
    /\ capacity_ = 1
    /\ sensorConfig_ = BootConfig.sensor
    /\ Env.retrySeconds = BootConfig.sensor.retrySeconds
    /\ publisherConfig_ = BootConfig.publisher

\* the manager holds another configuration than the one booted with, read
\* in an iteration a config_reload asked for, and the worker has gone
\* through an iteration since the start
C32_Witness ==
    /\ config_ # 1
    /\ fromJson(config_).pipeline # TelemetryServiceConfig
    /\ \E i \in Rereads : pollLog[i].flag
    /\ pc = "realtime"
    /\ now = StartClock + BootConfig.pipeline.realtimeIntervalSeconds

\* the same with a reload found by the periodic probe alone
C32_WitnessProbe ==
    /\ config_ # 1
    /\ \E i \in Rereads : ~pollLog[i].flag
    /\ pc = "realtime"
    /\ now = StartClock + BootConfig.pipeline.realtimeIntervalSeconds

\* the replies to the diagnostics commands received so far
DiagnosticsReplies ==
    UNION {{dispatched[c][i].reply :
                i \in {j \in 1..Len(dispatched[c]) :
                          dispatched[c][j].line = DiagnosticsText}} :
           c \in RouterConns}

\* what diagnostics returns when it reports the worker's intervals
WorkerIntervals ==
    {diagnosticsProvider(subscribers, [pipeline |-> TelemetryServiceConfig]) :
        subscribers \in BOOLEAN}

\* C33: the realtimeSeconds and historicalSeconds a diagnostics command
\* returns are the R and H the pipeline worker is using, also after the
\* supervisor has reloaded a changed configuration file.
C33_DiagnosticsShowWorker == DiagnosticsReplies \subseteq WorkerIntervals

\* the part of C33 that holds: while the manager holds the configuration
\* the program booted with, diagnostics reports the worker's intervals
C33_BeforeReload ==
    (\A i \in 1..Len(pollLog) : ~pollLog[i].reread) =>
        DiagnosticsReplies \subseteq WorkerIntervals

\* a diagnostics reply that reports the intervals of the reloaded file
C33_StaleWorker ==
    /\ config_ # 1
    /\ DiagnosticsReplies \ WorkerIntervals # {}
    /\ pc # "unbuilt"

(***************************************************************************)
(* Claims about the cache                                                  *)
(***************************************************************************)
\* C1: after N stores on channel c (interleaved with stores on other
\* channels and with snapshots) snapshot(c) has length min(N, K) and equals
\* the last min(N, K) readings stored on c, oldest first; the buffer never
\* holds more than K readings.  Checked for the snapshot a caller would take
\* in the current state and for the vector the last snapshot call returned.
C1_SnapshotIsLastK ==
    /\ \A c \in TelemetryChannel :
          LET n == Len(stored[c])
              m == Min(n, capacity_)
          IN  /\ Len(snapshot(cache_, c)) = m
              /\ snapshot(cache_, c) = LastN(stored[c], m)
              /\ Len(snapshot(cache_, c)) <= capacity_
    /\ snapOut # NoSnapshot =>
          LET h == SubSeq(stored[snapOut.channel], 1, snapOut.n)
          IN  snapOut.readings = LastN(h, Min(snapOut.n, capacity_))

\* C1 witness: a snapshot taken of a channel that has overflowed, while
\* another channel also holds readings.
C1_Witness ==
    /\ snapOut # NoSnapshot
    /\ snapOut.n > capacity_
    /\ snapOut.n = Len(stored[snapOut.channel])
    /\ \E d \in TelemetryChannel \ {snapOut.channel} : Len(stored[d]) > 0


(***************************************************************************)
(* Claims about the command plane                                          *)
(***************************************************************************)
\* the bytes of a sequence of chunks, in order
RECURSIVE Flat(_)
Flat(chunks) == IF chunks = <<>> THEN <<>> ELSE Head(chunks) \o Flat(Tail(chunks))

\* the complete lines of a byte stream, and what follows its last newline
RECURSIVE LinesOf(_)
LinesOf(bytes) ==
    LET pos == FindNewline(bytes)
    IN  IF pos = 0 THEN <<>>
        ELSE <<SubSeq(bytes, 1, pos - 1)>>
                \o LinesOf(SubSeq(bytes, pos + 1, Len(bytes)))

RECURSIVE TailOf(_)
TailOf(bytes) ==
    LET pos == FindNewline(bytes)
    IN  IF pos = 0 THEN bytes ELSE TailOf(SubSeq(bytes, pos + 1, Len(bytes)))

\* the replies a connection was sent by the router, in order
RepliesSent(c) ==
    LET rs == SelectSeq(sent[c], LAMBDA i : i.kind = "reply")
    IN  [i \in 1..Len(rs) |-> rs[i].text]

\* the world of the first feed call in the command-plane specifications
RouterStartWorld ==
    [World EXCEPT !.modbus = FALSE, !.lastAttempt = 0, !.holding = <<>>,
                  !.states = ConnectedStates, !.reload = FALSE,
                  !.sent = [c \in ConnIds |-> <<>>]]

\* C2: for one connection, whatever the chunks the byte stream arrived in,
\* the lines dispatched, the calls made for them and the replies sent are
\* those of one feed call on the whole stream; the lines are the stream cut
\* at its newlines, and the bytes after the last newline are what stays in
\* the connection's buffer, undispatched.
C2_ChunkingIsInvisible ==
    \A c \in RouterConns :
        LET stream == Flat(fed[c])
            whole  == feed(<<>>, stream, RouterStartWorld, Env)
        IN  /\ dispatched[c] = whole.out
            /\ BufferOf(c) = whole.buffer
            /\ [i \in 1..Len(dispatched[c]) |-> dispatched[c][i].line] = LinesOf(stream)
            /\ BufferOf(c) = TailOf(stream)
            /\ RepliesSent(c) = [i \in 1..Len(whole.out) |-> whole.out[i].reply]

\* C2 witness: a stream that arrived cut inside a line and cut between a
\* line and its newline; its first line has been dispatched and answered and
\* the unfinished line after it is buffered.
C2_Witness ==
    \E c \in RouterConns :
        /\ Len(dispatched[c]) >= 1
        /\ Len(RepliesSent(c)) >= 1
        /\ BufferOf(c) # <<>>
        /\ Len(fed[c]) >= 3
        /\ \E i \in 2..Len(fed[c]) :
              /\ fed[c][i] = <<NL>>
              /\ fed[c][i - 1][Len(fed[c][i - 1])] # NL
        /\ \E i \in 1..Len(fed[c]) :
              /\ Len(fed[c][i]) > 1
              /\ fed[c][i][Len(fed[c][i])] # NL

\* the type member of a parsed line, when the line is an object with a
\* string type (absent: the empty string)
TypeOf(line) == ValueStr(JsonParse(line), "type", "")

AllDispatched == {e \in UNION {{dispatched[c][i] : i \in 1..Len(dispatched[c])} : c \in ConnIds} : TRUE}

InvalidAnswer(e) ==
    /\ e.reply = ErrInvalid
    /\ "command_router" \in DOMAIN e.after
    /\ ~e.after["command_router"].healthy
    /\ \A i \in 1..Len(e.trace) : e.trace[i].op = "health"

UnknownAnswer(e) ==
    /\ e.reply = ErrUnknown
    /\ e.trace = <<>>
    /\ e.after = e.before

\* every complete line received so far has been dispatched and answered
AllAnswered ==
    \A c \in ConnIds :
        /\ Len(dispatched[c]) = Len(LinesOf(Flat(fed[c])))
        /\ RepliesSent(c) = [i \in 1..Len(dispatched[c]) |-> dispatched[c][i].reply]

\* C8 as amended: a line that is no JSON text, or is JSON but no object, or
\* whose type member is not a string, is answered invalid payload and marks
\* command_router unhealthy; an object whose type is absent or a string other
\* than the six recognised ones is answered unknown command, with no register
\* write, no reload and no health update; either way every later complete
\* line of the connection is still dispatched and answered.
C8_ErrorReplies ==
    /\ \A e \in AllDispatched :
          /\ (~JsonParse(e.line).ok \/ ~TypeOf(e.line).ok) => InvalidAnswer(e)
          /\ (JsonParse(e.line).ok /\ TypeOf(e.line).ok
                /\ TypeOf(e.line).v \notin RecognisedTypes) => UnknownAnswer(e)
    /\ AllAnswered

\* C8 witness: a line that is no JSON answered invalid payload, then an
\* unknown command on the same connection answered unknown command.
C8_Witness ==
    \E c \in RouterConns :
        /\ Len(dispatched[c]) >= 2
        /\ ~JsonParse(dispatched[c][1].line).ok
        /\ InvalidAnswer(dispatched[c][1])
        /\ dispatched[c][2].line = NopeText
        /\ UnknownAnswer(dispatched[c][2])
        /\ Len(RepliesSent(c)) = 2

\* C8 as stated: a line that is no JSON is answered invalid payload and marks
\* command_router unhealthy; a JSON object whose type is not one of the
\* recognised ones is answered unknown command with no side effect.
C8_AsStated ==
    /\ \A e \in AllDispatched :
          /\ ~JsonParse(e.line).ok => InvalidAnswer(e)
          /\ (JsonParse(e.line).ok /\ JsonParse(e.line).object
                /\ ~(TypeOf(e.line).ok /\ TypeOf(e.line).v \in RecognisedTypes))
                => UnknownAnswer(e)
    /\ AllAnswered

\* the register writes a line led to that the device took, in order
WritesOf(e) == SelectSeq(e.trace, LAMBDA ev : ev.op = "write" /\ ev.ok)
\* every write the gateway attempted for the line
AttemptsOf(e) == SelectSeq(e.trace, LAMBDA ev : ev.op = "write")

\* C9: a threshold command that reaches the device writes registers 10, 11,
\* 12, 13 in that order with soil*100, rain*100, temp*100 and light*100
\* (truncated); 50/30/25/800 gives 5000, 3000, 2500, 80000.
C9_ThresholdTimesHundred ==
    \A e \in AllDispatched :
        (TypeOf(e.line).ok /\ TypeOf(e.line).v = "threshold" /\ Len(WritesOf(e)) = 4) =>
            LET msg == JsonParse(e.line)
                ws  == WritesOf(e)
            IN  /\ [i \in 1..4 |-> ws[i].address] = <<10, 11, 12, 13>>
                /\ [i \in 1..4 |-> ws[i].value]
                     = <<TruncDiv(ValueNum(msg, "soil", 0).v, 10),
                         TruncDiv(ValueNum(msg, "rain", 0).v, 10),
                         TruncDiv(ValueNum(msg, "temp", 0).v, 10),
                         TruncDiv(ValueNum(msg, "light", 0).v, 10)>>
                /\ e.line = ThresholdText =>
                     [i \in 1..4 |-> ws[i].value] = <<5000, 3000, 2500, 80000>>

AckOf(type) ==
    CASE type = "threshold" -> AckThreshold
      [] type = "light_control" -> AckLight
      [] type = "mode_select" -> AckMode
      [] type = "write_register" -> AckWrite

\* the gateway had no open connection when the line was parsed and could not
\* get one: the endpoint was down, or the retry window had not passed
NoConnection(e) ==
    /\ ~e.modbus
    /\ ~e.up \/ e.at - e.lastAttempt < RetrySeconds

\* C10: a threshold, light_control, mode_select or write_register command
\* always gets its success ACK: also when the gateway has no open connection
\* (endpoint down, or inside the retry window), in which case no register
\* write is attempted, and also when a write fails on an open connection.
C10_AckWithoutWrite ==
    \A e \in AllDispatched :
        (TypeOf(e.line).ok /\ TypeOf(e.line).v \in WriteCommands) =>
            /\ e.reply = AckOf(TypeOf(e.line).v)
            /\ NoConnection(e) => AttemptsOf(e) = <<>>
            /\ (e.modbus /\ ~e.up) => /\ WritesOf(e) = <<>>
                                      /\ AttemptsOf(e) # <<>>

\* C10 witness: a connection attempt has failed, the endpoint is back up, and
\* a command parsed inside the retry window is acknowledged with no write
\* attempted and the gateway still without a connection.
C10_Witness ==
    \E e \in AllDispatched :
        /\ TypeOf(e.line).ok /\ TypeOf(e.line).v \in WriteCommands
        /\ ~e.modbus /\ e.up /\ e.lastAttempt > 0
        /\ e.at - e.lastAttempt < RetrySeconds
        /\ AttemptsOf(e) = <<>>
        /\ e.reply = AckOf(TypeOf(e.line).v)
        /\ ~modbus_

\* the calls of SensorGateway::writeRegister a line led to, in order
CallsOf(e) == SelectSeq(e.trace, LAMBDA ev : ev.op = "writeRegister")

\* the address and the value a write_register line names, as integers
\* (address absent: -1; value absent: 0)
AddressOf(line) == ToInt(ValueNum(JsonParse(line), "address", -1000).v)
ValueOf(line) == ToInt(ValueNum(JsonParse(line), "value", 0).v)

DirectWrites ==
    {e \in AllDispatched : TypeOf(e.line).ok /\ TypeOf(e.line).v = "write_register"}

\* C11 as amended: a write_register command whose address is negative or
\* absent makes no call of the gateway's writeRegister and is answered
\* 'register write queued'; one whose address is >= 0 makes exactly one
\* call, with the address and the value each reduced modulo 2^16 (the
\* address and the value themselves when they lie in 0..65535), and gets the
\* same answer.
C11_DirectWrite ==
    \A e \in DirectWrites :
        /\ e.reply = AckWrite
        /\ AddressOf(e.line) < 0 => CallsOf(e) = <<>>
        /\ AddressOf(e.line) >= 0 =>
              /\ Len(CallsOf(e)) = 1
              /\ CallsOf(e)[1].address = AddressOf(e.line) % 65536
              /\ CallsOf(e)[1].value = ValueOf(e.line) % 65536
              /\ (AddressOf(e.line) <= 65535 /\ ValueOf(e.line) \in 0..65535) =>
                    /\ CallsOf(e)[1].address = AddressOf(e.line)
                    /\ CallsOf(e)[1].value = ValueOf(e.line)

\* C11 witness: a command without address answered with no call made, and a
\* command with address 70000 answered after one call for register 4464.
C11_Witness ==
    /\ \E e \in DirectWrites :
          /\ ~HasKey(JsonParse(e.line), "address")
          /\ CallsOf(e) = <<>> /\ e.reply = AckWrite
    /\ \E e \in DirectWrites :
          /\ AddressOf(e.line) = 70000
          /\ Len(CallsOf(e)) = 1 /\ CallsOf(e)[1].address = 4464
          /\ e.reply = AckWrite

\* C11 as stated: no call for a negative or absent address; for an address
\* >= 0 exactly one call writeRegister(address, value); the same ACK in both
\* cases.
C11_AsStated ==
    \A e \in DirectWrites :
        /\ e.reply = AckWrite
        /\ AddressOf(e.line) < 0 => CallsOf(e) = <<>>
        /\ AddressOf(e.line) >= 0 =>
              /\ Len(CallsOf(e)) = 1
              /\ CallsOf(e)[1].address = AddressOf(e.line)
              /\ CallsOf(e)[1].value = ValueOf(e.line)

\* C20: the router's inbound buffer of a connection is removed when the
\* connection closes: the ids that have a buffer are live connection ids.
C20_BuffersOfLiveConnections == DOMAIN buffers_ \subseteq serverConns

\* the lines dispatched for connection c so far
DispatchedLines(c) == [i \in 1..Len(dispatched[c]) |-> dispatched[c][i].line]

\* connection c has got what it would get if its chunks were fed alone:
\* the complete lines of its bytes, in order, and the rest in its buffer
SameAsAlone(c) ==
    /\ DispatchedLines(c) = LinesOf(Flat(fed[c]))
    /\ BufferOf(c) = TailOf(Flat(fed[c]))

\* C34: when feed runs at the same time on different I/O threads for
\* different connections, every connection gets the lines and replies it
\* would get if its chunks were fed alone, and the buffer map is never
\* accessed by two threads in conflicting ways.
C34_FeedsApart ==
    /\ mapRaces = {}
    /\ \A c \in ConnIds : HandlersOf(c) = {} => SameAsAlone(c)

\* the part of C34 that holds: as long as no access of the map has
\* overlapped an insertion, every connection has what it would get alone
C34_ApartWithoutRace ==
    mapRaces = {} => \A c \in ConnIds : HandlersOf(c) = {} => SameAsAlone(c)

\* a command line of a connection was never dispatched: its first bytes
\* went into an element the map lost
C34_LineLost ==
    \E c \in ConnIds :
        /\ HandlersOf(c) = {}
        /\ wire[c] = <<>>
        /\ NopeText \in {LinesOf(Flat(fed[c]))[i] : i \in 1..Len(LinesOf(Flat(fed[c])))}
        /\ NopeText \notin {DispatchedLines(c)[i] : i \in 1..Len(dispatched[c])}

\* the threads that have processed a threshold command
Returned == {t \in IoThreads : ioPc[t].pc = "returned"}

\* registers 10..13 hold the four values of the command thread t processed
HoldsCommandOf(t) ==
    LET writes == thresholdWrites(JsonParse(ioPc[t].chunk), ubCast)
    IN  \A i \in 1..4 :
            /\ writes[i].address \in DOMAIN holding
            /\ holding[writes[i].address] = writes[i].value

\* C35: when two threshold commands from different connections are
\* processed at the same time on a connected gateway, the four register
\* writes of one are not interleaved with those of the other: afterwards
\* registers 10..13 hold the four values of one single command.
C35_OneCommandInRegisters ==
    Returned = IoThreads => \E t \in IoThreads : HoldsCommandOf(t)

\* the part of C35 that holds: every single register holds the value one
\* of the two commands gave it
C35_EachRegisterFromACommand ==
    Returned = IoThreads =>
        \A a \in 10..13 : \E t \in IoThreads :
            LET writes == thresholdWrites(JsonParse(ioPc[t].chunk), ubCast)
            IN  holding[a] = writes[a - 9].value

\* both commands are done and registers 10..13 hold a mixture of the two
C35_Mixed ==
    /\ Returned = IoThreads
    /\ ioPc["io1"].id # ioPc["io2"].id
    /\ \A t \in IoThreads : ~HoldsCommandOf(t)

(***************************************************************************)
(* Claims about the gateway under its callers                              *)
(***************************************************************************)
\* what a call did on the socket: connect attempts, register reads and writes
SocketOps(c) == SelectSeq(c.trace, LAMBDA ev : ev.what = "modbus")
ConnectsOf(c) == SelectSeq(c.trace, LAMBDA ev : ev.op = "connect")
Attempted(i) == ConnectsOf(gwCalls[i]) # <<>>

\* the calls before the i-th that made a connect attempt
AttemptsBefore(i) == {j \in 1..(i - 1) : Attempted(j)}

\* the time of the last connect attempt before the i-th call
PreviousAttempt(i) ==
    gwCalls[CHOOSE j \in AttemptsBefore(i) : \A k \in AttemptsBefore(i) : k <= j].at

\* the i-th call came inside the retry window of the attempt before it
InsideWindow(i) ==
    /\ AttemptsBefore(i) # {}
    /\ gwCalls[i].at - PreviousAttempt(i) < RetrySeconds

\* the calls made with the endpoint down and the gateway holding no handle
DownCalls == {i \in 1..Len(gwCalls) : ~gwCalls[i].up /\ ~gwCalls[i].modbus}

FailedOnOpen == {i \in 1..Len(gwCalls) : gwCalls[i].modbus /\ ~gwCalls[i].up}

\* C14: when a register read or write fails on an open Modbus connection,
\* the gateway releases the handle and is disconnected, so the next call
\* goes through the connect path (retry window or a connect attempt) and
\* does not put a read or write on the failed handle.
C14_FailureReleasesHandle ==
    \A i \in FailedOnOpen :
        /\ ~gwCalls[i].handle
        /\ i < Len(gwCalls) =>
              LET n == gwCalls[i + 1]
              IN  /\ ~n.modbus
                  /\ (SocketOps(n) = <<>> \/ SocketOps(n)[1].op = "connect")

\* the threads inside the connect/read/write section of the gateway
InSection == {t \in GatewayThreads : gwPc[t].pc \in {"locked", "connected", "return"}}

\* C15: no two Modbus operations overlap: at most one thread is inside the
\* connect/read/write section, it is the thread that holds mutex_, and
\* every access to modbus_ and lastAttempt_ was made by the thread holding
\* mutex_ at that moment.
C15_OneThreadInside ==
    /\ Cardinality(InSection) <= 1
    /\ \A t \in InSection : mutex_ = t
    /\ InSection = {} => mutex_ = "free"
    /\ \A k \in 1..Len(accesses) : accesses[k].by = accesses[k].holder

\* the pipeline thread is between its connect and its read while an I/O
\* thread waits at the lock with a writeRegister call, after the other I/O
\* thread's write went through the section
C15_Witness ==
    /\ gwPc["pipeline"].pc = "connected"
    /\ gwPc["pipeline"].method = "readRealtime"
    /\ gwPc["io1"].pc = "waiting" /\ gwPc["io1"].method = "writeRegister"
    /\ \E k \in 1..Len(accesses) :
          accesses[k].by = "io2" /\ accesses[k].step = "modbus"

(***************************************************************************)
(* Claims about the health monitor                                         *)
(***************************************************************************)
\* the positions in the history of assignments that wrote component c
AppliedTo(c) == {k \in 1..Len(applied) : applied[k].component = c}

\* the last of a non-empty set of positions
LastOf(S) == CHOOSE k \in S : \A j \in S : j <= k

HealthComponents == {"sensor_gateway", "telemetry_publisher"}

\* C16: for every component, whatever the interleaving of the update calls
\* of concurrent threads, the registry's entry equals the triple of the
\* update applied last to it; a component no update was applied to keeps
\* the entry it had (or has none).
C16_LastUpdateWins ==
    /\ DOMAIN states_ \subseteq HealthComponents
    /\ \A c \in HealthComponents :
          IF AppliedTo(c) = {}
            THEN /\ c \in DOMAIN states_ <=> c \in DOMAIN ListeningStates
                 /\ c \in DOMAIN states_ => states_[c] = ListeningStates[c]
            ELSE LET a == applied[LastOf(AppliedTo(c))]
                 IN  /\ c \in DOMAIN states_
                     /\ states_[c] = [healthy |-> a.healthy, detail |-> a.detail,
                                      updatedAt |-> a.at]
    /\ \A k \in 1..Len(applied) : applied[k].by = applied[k].holder

\* two threads have updated sensor_gateway with different triples at
\* different times, a third thread is waiting at the lock, and the entry
\* of telemetry_publisher is the one written at start
C16_Witness ==
    /\ Len(applied) = 2
    /\ applied[1].component = "sensor_gateway"
    /\ applied[2].component = "sensor_gateway"
    /\ applied[1].by # applied[2].by
    /\ applied[1].healthy # applied[2].healthy
    /\ applied[1].at < applied[2].at
    /\ \E t \in GatewayThreads : updPc[t].pc = "waiting" /\ healthMutex \notin {t, "free"}
    /\ states_["telemetry_publisher"] = ListeningStates["telemetry_publisher"]

\* the registry after the first n assignments of the history
RECURSIVE RegistryAfter(_)
RegistryAfter(n) ==
    IF n = 0 THEN ListeningStates
    ELSE update(RegistryAfter(n - 1), applied[n].component, applied[n].healthy,
                applied[n].detail, applied[n].at)

\* C17: a reader of the status file sees, at every instant, the complete
\* content of a flush (an earlier one or the one under way), never an empty
\* or partly written file; and every flushed content is a copy of the
\* registry as it was at one instant.
C17_ReaderSeesCompleteFlush ==
    /\ healthFile.exists =>
          \E k \in 1..Len(flushLog) : healthFile.text = Dump(flushLog[k].registry)
    /\ \A k \in 1..Len(flushLog) :
          flushLog[k].registry = RegistryAfter(flushLog[k].upto)

\* C18: the writer flushes once more after running_ is cleared: when
\* HealthMonitor::stop() has returned, the writer has ended, its last flush
\* took its copy after stop() was called, and the status file holds the
\* registry with every update completed before stop() was called, the
\* publisher's "Server stopped" among them.
C18_LastFlushAfterStop ==
    /\ \A k \in 1..Len(flushLog) :
          flushLog[k].final => ~running_ /\ flushLog[k].upto >= stopIndex
    /\ mainPc = "stopped" =>
          /\ writerPc = "done"
          /\ flushLog # <<>>
          /\ flushLog[Len(flushLog)].final
          /\ flushLog[Len(flushLog)].written
          /\ healthFile.exists
          /\ healthFile.text = Dump(RegistryAfter(stopIndex))
          /\ \E i \in 1..Len(healthFile.text) :
                /\ healthFile.text[i].component = "telemetry_publisher"
                /\ healthFile.text[i].detail = "Server stopped"
                /\ ~healthFile.text[i].healthy

\* stop() has returned after a periodic flush that missed later updates:
\* the gateway was reported after that flush took its copy, then the
\* publisher was stopped, and only the last flush wrote both
C18_Witness ==
    /\ mainPc = "stopped"
    /\ Len(flushLog) >= 2
    /\ ~flushLog[Len(flushLog) - 1].final
    /\ flushLog[Len(flushLog) - 1].upto + 2 <= stopIndex
    /\ applied[stopIndex].detail = "Server stopped"
    /\ applied[stopIndex - 1].component = "sensor_gateway"
    /\ healthFile.text # Dump(flushLog[Len(flushLog) - 1].registry)

(***************************************************************************)
(* Claims about the telemetry service                                      *)
(***************************************************************************)
\* C19: no two frames of one process carry the same correlationId: the ids
\* handed to the pipeline thread and to the snapshot provider on the I/O
\* threads are "frame-<N>" with N from the one counter, and every N is
\* greater than every N issued before it.
C19_FreshCorrelationIds ==
    /\ \A i \in 1..Len(issued) : issued[i].id = "frame-" \o ToString(issued[i].n)
    /\ \A i, j \in 1..Len(issued) :
          i < j => /\ issued[i].n < issued[j].n
                   /\ issued[i].id # issued[j].id
    /\ issued # <<>> => issued[Len(issued)].n = correlationId_

\* the pipeline thread took an id between two snapshots of one provider
\* run, while the other I/O thread's provider run took ids as well
C19_Witness ==
    /\ Len(issued) = 5
    /\ issued[1].by = "io1"
    /\ issued[2].by = "pipeline"
    /\ issued[3].by = "io2"
    /\ issued[4].by = "io1"
    /\ issued[5].by = "io2"
    /\ building["io1"] # <<>>

(***************************************************************************)
(* Claims about the supervisor                                             *)
(***************************************************************************)
ReloadLines ==
    {e \in AllDispatched : TypeOf(e.line).ok /\ TypeOf(e.line).v = "config_reload"}

\* the number of config_reload commands processed when the poll iteration
\* before the i-th made its exchange
RequestsBefore(i) == IF i = 1 THEN 0 ELSE pollLog[i - 1].requests

\* C12: a config_reload command sets the reload-requested flag and is
\* answered 'configuration reload requested'; the flag stays set until the
\* next poll iteration, whose exchange sees it and clears it, however many
\* requests were made since the iteration before; an iteration re-reads the
\* configuration only if the file exists with a modification time other than
\* the recorded one; and every iteration probes the file exactly once,
\* whether or not it saw the flag.
C12_ReloadFlagPolled ==
    /\ \A e \in ReloadLines :
          /\ e.reply = AckReload
          /\ \E i \in 1..Len(e.trace) : e.trace[i].op = "reload"
    /\ reloadRequested <=> ReloadsProcessed > RequestsBefore(Len(pollLog) + 1)
    /\ \A i \in 1..Len(pollLog) :
          LET p == pollLog[i]
          IN  /\ p.flag <=> p.requests > RequestsBefore(i)
              /\ p.done => p.probes = 1
              /\ p.reread => /\ p.file.exists
                             /\ p.file.mtime # p.recorded
              /\ i < Len(pollLog) => p.done

\* C12 witness: an iteration that saw no flag and probed the file once
\* without re-reading, then two config_reload commands, then an iteration
\* that saw the flag once, found the file changed and re-read it.
C12_Witness ==
    /\ Len(pollLog) = 2
    /\ ~pollLog[1].flag /\ pollLog[1].done
    /\ pollLog[1].probes = 1 /\ ~pollLog[1].reread
    /\ pollLog[2].flag /\ pollLog[2].done
    /\ pollLog[2].requests - pollLog[1].requests = 2
    /\ pollLog[2].probes = 1 /\ pollLog[2].reread
    /\ ~reloadRequested
    /\ config_ = configFile.mtime

(***************************************************************************)
(* Claims about the publisher                                              *)
(***************************************************************************)
\* the integer four bytes stand for, most significant first (below 2^31)
DecodeBigEndian32(b) == ((b[1] * 256 + b[2]) * 256 + b[3]) * 256 + b[4]

\* the frames a connection was sent, in order
FramesSent(c) == SelectSeq(sent[c], LAMBDA i : i.kind = "frame")

\* C3: for every frame whose serialised body has L bytes, 1 <= L <= 2^31 - 1,
\* the buffer handed to each connection starts with L as a big-endian
\* unsigned 32-bit integer, carries the body after it, and the byte count
\* passed to Send is L + 4.
C3_LengthPrefix ==
    \A c \in ConnIds : \A i \in 1..Len(FramesSent(c)) :
        LET item == FramesSent(c)[i]
            L    == item.body.size
        IN  L >= 1 =>
              /\ Len(item.prefix) = 4
              /\ \A j \in 1..4 : item.prefix[j] \in 0..255
              /\ item.prefix[1] < 128
              /\ DecodeBigEndian32(item.prefix) = L
              /\ item.count >= 4
              /\ item.count - 4 = L

\* the publish calls of the last step that found subscribers, and those
\* that found none
Delivering == {i \in 1..Len(pubCalls) : pubCalls[i].conns # {}}
ShortCircuited == {i \in 1..Len(pubCalls) : pubCalls[i].conns = {}}

\* C6: a publish call made while the transport has no active connection
\* sends nothing, builds no buffer and leaves the health registry as it was,
\* also right after the last subscriber has closed.
C6_NoSubscribersNoWork ==
    \A i \in ShortCircuited :
        /\ pubCalls[i].after = pubCalls[i].before
        /\ pubCalls[i].statesAfter = pubCalls[i].statesBefore
        /\ pubCalls[i].item.kind = "none"

\* C6 witness: the pipeline worker saw a subscriber, the subscriber closed,
\* and the worker's publish call then found no connection.
C6_Witness ==
    /\ ShortCircuited # {}
    /\ \E i \in ShortCircuited : pubCalls[i].item.via = "pipeline"
    /\ accepts > 0
    /\ serverConns = {}

\* what a Send of the call's buffer to connection id appends to its log
SendOf(call, id) == [call.item EXCEPT !.ok = id \notin call.dead]

\* C7: a publish call made while at least one connection is live (accepted
\* and not closed) makes exactly one Send per live connection, none twice,
\* none left out, none to any other id, every Send with the same buffer; a
\* Send that fails does not keep the later connections from theirs.
C7_OneSendPerLiveConnection ==
    \A i \in Delivering :
        LET call == pubCalls[i]
        IN  /\ {call.live[j] : j \in 1..Len(call.live)} = call.conns
            /\ Len(call.live) = Cardinality(call.conns)
            /\ call.item.kind = "frame"
            /\ \A id \in call.conns :
                  call.after[id] = Append(call.before[id], SendOf(call, id))
            /\ \A id \in ConnIds \ call.conns : call.after[id] = call.before[id]

\* C7 witness: a publish call with two live connections, the Send to the
\* first of which failed and the Send to the second of which went through.
C7_Witness ==
    \E i \in Delivering :
        LET call == pubCalls[i]
        IN  /\ Len(call.live) = 2
            /\ call.live[1] \in call.dead
            /\ call.live[2] \notin call.dead
            /\ call.after[call.live[2]]
                 = Append(call.before[call.live[2]], call.item)
            /\ ~call.after[call.live[1]][Len(call.after[call.live[1]])].ok

\* the channels of a list of frames, in order
ChannelsOf(frames) == [j \in 1..Len(frames) |-> frames[j].channel]

\* C4: every accepted connection has the snapshot provider called; its
\* frames are the three channels in the order realtime, historical_env,
\* historical_soil, each with snapshot = true and the channel's cache
\* content, oldest first; and each is sent, in that order, to every
\* connection live at that moment, the joiner among them.
C4_SnapshotOnEveryAccept ==
    \A i \in 1..Len(acceptLog) :
        LET a == acceptLog[i]
        IN  /\ a.provided
            /\ ChannelsOf(a.frames)
                 = <<"Realtime", "HistoricalEnvironment", "HistoricalSoil">>
            /\ \A j \in 1..Len(a.frames) :
                  /\ a.frames[j].snapshot
                  /\ a.frames[j].readings = snapshot(a.cache, a.frames[j].channel)
            /\ a.done =>
                  /\ [j \in 1..Len(a.calls) |-> a.calls[j].frame] = a.frames
                  /\ \A j \in 1..Len(a.calls) :
                        /\ a.id \in a.calls[j].conns
                        /\ \A id \in a.calls[j].conns :
                              a.calls[j].after[id]
                                = Append(a.calls[j].before[id], SendOf(a.calls[j], id))

\* the store order numbers of the readings a list of sent frames carries
RECURSIVE SeqsOf(_)
SeqsOf(items) ==
    IF items = <<>> THEN <<>>
    ELSE [j \in 1..Len(Head(items).body.json.readings) |->
             Head(items).body.json.readings[j].seq] \o SeqsOf(Tail(items))

NonDecreasing(s) == \A a, b \in 1..Len(s) : a < b => s[a] <= s[b]

\* C5 as amended: for any subscriber and any channel, under every
\* interleaving of pipeline steps and accepts, the frames the pipeline worker
\* publishes deliver the readings in the order the pipeline stored them; the
\* join-time snapshot frames, which are sent to every subscriber, are not
\* covered.
C5_PipelineFramesInStoreOrder ==
    \A c \in ConnIds, ch \in TelemetryChannel :
        NonDecreasing(SeqsOf(SelectSeq(FramesSent(c),
            LAMBDA i : i.via = "pipeline" /\ i.body.json.channel = channelName(ch))))

\* C5 witness: a subscriber that was sent two realtime frames by the
\* pipeline worker and, between them, the realtime snapshot of another
\* connection's join, carrying a reading.
C5_Witness ==
    \E c \in ConnIds :
        LET fs == SelectSeq(FramesSent(c),
                            LAMBDA i : i.body.json.channel = "realtime")
        IN  \E a, b, d \in 1..Len(fs) :
              /\ a < b /\ b < d
              /\ fs[a].via = "pipeline" /\ fs[d].via = "pipeline"
              /\ fs[b].via = "join" /\ fs[b].body.json.readings # <<>>
              /\ fs[d].ok

\* C5 as stated: for any subscriber and any channel, no frame carrying an
\* earlier-stored reading is sent after a frame carrying a later-stored one.
C5_AllFramesInStoreOrder ==
    \A c \in ConnIds, ch \in TelemetryChannel :
        NonDecreasing(SeqsOf(SelectSeq(FramesSent(c),
            LAMBDA i : i.body.json.channel = channelName(ch))))
=============================================================================
